---------------------------- MODULE Spec2Model ----------------------------
(***************************************************************************)
(* A model of testsmith.nvim: the resolution pipeline of generate()        *)
(* (language, project root, framework, structure, test path, the           *)
(* existing-file / no-file state machine), the project cache and the path  *)
(* strategies.                                                             *)
(*                                                                         *)
(* Text is modelled as a sequence of atoms (strings).  A path is the       *)
(* sequence of its pieces, the separator "/" and the dot "." being atoms   *)
(* of their own, so "src/main/Foo.java" is                                 *)
(*   <<"src", "/", "main", "/", "Foo", ".", "java">>                       *)
(* and substring operations of the code (contains, replace, ends_with,     *)
(* rfind) are the same operations on the sequence.  A file content is the  *)
(* sequence of its line fragments and of "\n" atoms.                       *)
(***************************************************************************)
EXTENDS Integers, Sequences, FiniteSets, TLC

VARIABLES
    backend,    \* FileSystemBackend of the `fs` handed to generate()
    disk,       \* the OS file system: path -> [content, mtime, readable]
    dirs,       \* directories of the OS file system that hold no modelled file
    readonly,   \* the OS file system refuses writes of test files
    mem,        \* MemoryFileSystem.files: path -> content
    cacheFile,  \* the persisted testsmith.projects.json
    clock,      \* SystemTime::now(), in ticks
    last        \* the call made: its inputs, what it decided, its result

vars == <<backend, disk, dirs, readonly, mem, cacheFile, clock, last>>

-----------------------------------------------------------------------------
(* Generic helpers on sequences                                            *)

None == "None"

\* a value computed once and named: With(e, LAMBDA x : body) is body where x
\* is e (a `let` binding of the code)
With(v, Op(_)) == Op(v)

NoPath == << >>

RECURSIVE Concat(_)
Concat(ss) == IF ss = << >> THEN << >> ELSE Head(ss) \o Concat(Tail(ss))

\* s[i..j] of the text s (empty when j < i)
Slice(s, i, j) == IF j < i THEN << >> ELSE SubSeq(s, i, j)

\* pat occurs in s at position i
OccursAt(s, pat, i) ==
    /\ i >= 1
    /\ i + Len(pat) - 1 <= Len(s)
    /\ \A k \in 1..Len(pat) : s[i + k - 1] = pat[k]

\* str::contains
Contains(s, pat) == \E i \in 1..(Len(s) + 1) : OccursAt(s, pat, i)

\* str::ends_with
EndsWith(s, pat) == Len(pat) <= Len(s) /\ OccursAt(s, pat, Len(s) - Len(pat) + 1)

\* str::replace: every non-overlapping occurrence, left to right
RECURSIVE Replace(_, _, _)
Replace(s, from, to) ==
    IF s = << >> THEN << >>
    ELSE IF OccursAt(s, from, 1)
         THEN to \o Replace(Slice(s, Len(from) + 1, Len(s)), from, to)
         ELSE <<Head(s)>> \o Replace(Tail(s), from, to)

\* str::trim_end_matches: strips the suffix as often as it repeats
RECURSIVE TrimEndMatches(_, _)
TrimEndMatches(s, pat) ==
    IF pat # << >> /\ EndsWith(s, pat)
    THEN TrimEndMatches(Slice(s, 1, Len(s) - Len(pat)), pat)
    ELSE s

\* the last index at or before i where s holds the atom, 0 when there is none
RECURSIVE RFindFrom(_, _, _)
RFindFrom(s, atom, i) ==
    IF i = 0 THEN 0
    ELSE IF s[i] = atom THEN i
    ELSE RFindFrom(s, atom, i - 1)

\* str::rfind of a one-atom pattern: the last index, 0 when there is none
RFind(s, atom) == RFindFrom(s, atom, Len(s))

\* the pieces of s[start..] between the atoms sep, empty pieces included; i is
\* the position the scan has reached
RECURSIVE SplitAt(_, _, _, _)
SplitAt(s, sep, i, start) ==
    IF i > Len(s) THEN <<Slice(s, start, Len(s))>>
    ELSE IF s[i] = sep THEN <<Slice(s, start, i - 1)>> \o SplitAt(s, sep, i + 1, i + 1)
    ELSE SplitAt(s, sep, i + 1, start)

\* str::split on a one-atom pattern
Split(s, sep) == SplitAt(s, sep, 1, 1)

-----------------------------------------------------------------------------
(* cli.rs: the enumerations, and their Debug text (format!("{:?}", x))     *)

Java == "Language::Java"

Rust == "Language::Rust"

Python == "Language::Python"

JavaScript == "Language::JavaScript"

TypeScript == "Language::TypeScript"

Language == {Java, Rust, Python, JavaScript, TypeScript}

JUnit == "Framework::JUnit"

JUnit4 == "Framework::JUnit4"

TestNG == "Framework::TestNG"

Native == "Framework::Native"

Jest == "Framework::Jest"

Pytest == "Framework::Pytest"

Framework == {JUnit, JUnit4, TestNG, Native, Jest, Pytest}

Maven == "StructureType::Maven"

SameFile == "StructureType::SameFile"

Gradle == "StructureType::Gradle"

Flat == "StructureType::Flat"

StructureType == {Maven, SameFile, Gradle, Flat}

\* #[derive(Debug)] on a field-less enum prints the variant's name
fmt_debug(x) ==
    CASE x = Java -> "Java"
      [] x = Rust -> "Rust"
      [] x = Python -> "Python"
      [] x = JavaScript -> "JavaScript"
      [] x = TypeScript -> "TypeScript"
      [] x = JUnit -> "JUnit"
      [] x = JUnit4 -> "JUnit4"
      [] x = TestNG -> "TestNG"
      [] x = Native -> "Native"
      [] x = Jest -> "Jest"
      [] x = Pytest -> "Pytest"
      [] x = Maven -> "Maven"
      [] x = SameFile -> "SameFile"
      [] x = Gradle -> "Gradle"
      [] x = Flat -> "Flat"

-----------------------------------------------------------------------------
(* config/framework.rs                                                     *)

\* a faulty is_valid_combination, whose Java arm lacks TestNG
is_valid_combination_without_testng(language, framework) ==
    CASE language = Java -> framework \in {JUnit, JUnit4}
      [] language = Rust -> framework \in {Native}
      [] language = Python -> framework \in {Pytest}
      [] language = JavaScript -> framework \in {Jest}
      [] language = TypeScript -> framework \in {Jest}

is_valid_combination(language, framework) ==
    CASE language = Java -> framework \in {JUnit, JUnit4, TestNG}
      [] language = Rust -> framework \in {Native}
      [] language = Python -> framework \in {Pytest}
      [] language = JavaScript -> framework \in {Jest}
      [] language = TypeScript -> framework \in {Jest}

\* a faulty validate_combination, which accepts every pair
validate_combination_accepting_all(language, framework) == "Ok"

\* Ok(()) is "Ok"; the error is named by its variant
validate_combination(language, framework) ==
    IF is_valid_combination(language, framework) THEN "Ok" ELSE "InvalidCombination"

supported_frameworks_for_language(language) ==
    CASE language = Java -> <<JUnit, JUnit4, TestNG>>
      [] language = Rust -> <<Native>>
      [] language = Python -> <<Pytest>>
      [] language = JavaScript -> <<Jest>>
      [] language = TypeScript -> <<Jest>>

-----------------------------------------------------------------------------
(* std::path on the atom sequences                                         *)

Sep == "/"

Dot == "."

Root == <<Sep>>

CurDir == <<Dot>>

ParentDir == <<Dot, Dot>>

RECURSIVE JoinSegs(_)
JoinSegs(segs) ==
    IF segs = << >> THEN << >>
    ELSE IF Len(segs) = 1 THEN segs[1]
    ELSE segs[1] \o <<Sep>> \o JoinSegs(Tail(segs))

is_absolute(p) == p # << >> /\ p[1] = Sep

\* path_clean::clean: lexical normalisation
RECURSIVE CleanSegs(_, _, _)
CleanSegs(todo, out, abs) ==
    IF todo = << >> THEN out
    ELSE LET seg == Head(todo)
         IN  IF seg = << >> \/ seg = CurDir THEN CleanSegs(Tail(todo), out, abs)
             ELSE IF seg = ParentDir
             THEN IF out # << >> /\ out[Len(out)] # ParentDir
                  THEN CleanSegs(Tail(todo), Slice(out, 1, Len(out) - 1), abs)
                  ELSE IF abs THEN CleanSegs(Tail(todo), out, abs)
                  ELSE CleanSegs(Tail(todo), Append(out, seg), abs)
             ELSE CleanSegs(Tail(todo), Append(out, seg), abs)

clean(p) ==
    With(CleanSegs(Split(p, Sep), << >>, is_absolute(p)), LAMBDA segs :
        IF is_absolute(p) THEN Root \o JoinSegs(segs)
        ELSE IF segs = << >> THEN CurDir
        ELSE JoinSegs(segs))

\* The four operators below are Path::parent and Path::file_name on the
\* paths they are applied to, which are normalised: no doubled or trailing
\* separator and no "." piece after the first.

\* the last piece of a path
last_piece(p) == Slice(p, RFind(p, Sep) + 1, Len(p))

\* Path::parent is Some
has_parent(p) == p # << >> /\ p # Root

\* Path::parent, where it is Some: the path without its last component
parent(p) ==
    With(RFind(p, Sep), LAMBDA i :
        IF i = 0 THEN << >>
        ELSE IF i = 1 THEN Root
        ELSE Slice(p, 1, i - 1))

\* Path::file_name is Some
has_file_name(p) == has_parent(p) /\ last_piece(p) \notin {CurDir, ParentDir}

\* Path::file_name, where it is Some
file_name(p) == last_piece(p)

\* Path::extension is Some: the file name has a dot that is not its first atom
has_extension(p) == has_file_name(p) /\ RFind(file_name(p), Dot) > 1

\* Path::extension, where it is Some: the text after the last dot
extension(p) ==
    With(file_name(p), LAMBDA f : Slice(f, RFind(f, Dot) + 1, Len(f)))

\* Path::join of a relative path
join(dir, rel) ==
    IF dir = << >> THEN rel
    ELSE IF dir[Len(dir)] = Sep THEN dir \o rel
    ELSE dir \o <<Sep>> \o rel

-----------------------------------------------------------------------------
(* config/language.rs                                                      *)

\* a faulty detect_language, which has one error for every path it cannot
\* classify
detect_language_with_one_error(path) ==
    IF ~has_extension(path) THEN "UnsupportedLanguage"
    ELSE With(extension(path), LAMBDA ext :
             CASE ext = <<"java">> -> Java
               [] ext = <<"rs">> -> Rust
               [] ext = <<"py">> -> Python
               [] ext = <<"js">> -> JavaScript
               [] ext = <<"ts">> -> TypeScript
               [] OTHER -> "UnsupportedLanguage")

\* Ok(language), or the name of the error
detect_language(path) ==
    IF ~has_extension(path) THEN "InvalidSourceFile"
    ELSE With(extension(path), LAMBDA ext :
             CASE ext = <<"java">> -> Java
               [] ext = <<"rs">> -> Rust
               [] ext = <<"py">> -> Python
               [] ext = <<"js">> -> JavaScript
               [] ext = <<"ts">> -> TypeScript
               [] OTHER -> "UnsupportedLanguage")

default_framework_for_language(language) ==
    CASE language = Java -> JUnit
      [] language = Rust -> Native
      [] language = Python -> Pytest
      [] language = JavaScript -> Jest
      [] language = TypeScript -> Jest

-----------------------------------------------------------------------------
(* Maps (HashMap) as functions with a finite domain                        *)

EmptyMap == [k \in {} |-> None]

\* HashMap::insert
MapInsert(m, key, val) == [k \in (DOMAIN m) \cup {key} |-> IF k = key THEN val ELSE m[k]]

-----------------------------------------------------------------------------
(* The OS file system (std::fs, Path::exists, Path::is_dir), as the world  *)
(* record w = [backend, disk, dirs, readonly, mem, cacheFile, clock] holds  *)
(* it: disk maps the path of each regular file to the file, dirs is the    *)
(* set of the directories.  A relative path is taken from the working      *)
(* directory.                                                              *)

\* std::env::current_dir
Cwd == <<Sep, "work">>

\* the path the OS looks up
abspath(p) == IF is_absolute(p) THEN p ELSE join(Cwd, p)

\* the directories above an absolute path
Ancestors(p) == {Root} \cup {Slice(p, 1, i - 1) : i \in {j \in 2..Len(p) : p[j] = Sep}}

\* Path::is_file
os_is_file(w, p) == abspath(p) \in DOMAIN w.disk

\* Path::is_dir
os_is_dir(w, p) == abspath(p) \in w.dirs

\* Path::exists
os_exists(w, p) == os_is_file(w, p) \/ os_is_dir(w, p)

\* std::fs::read_to_string is Ok
os_readable(w, p) == os_is_file(w, p) /\ w.disk[abspath(p)].readable

\* std::fs::read_to_string, where it is Ok
os_read(w, p) == w.disk[abspath(p)].content

-----------------------------------------------------------------------------
(* file_ops.rs: FileSystem over its two backends                           *)

Os == "Os"

Memory == "Memory"

\* MemoryFileSystem::normalize_path: the path's text is the key
normalize_path(p) == p

\* FileSystem::file_exists
file_exists(w, p) ==
    IF w.backend = Os THEN os_exists(w, p) /\ os_is_file(w, p)
    ELSE normalize_path(p) \in DOMAIN w.mem

\* FileSystem::read_file is Ok
read_file_ok(w, p) ==
    IF w.backend = Os THEN os_readable(w, p)
    ELSE normalize_path(p) \in DOMAIN w.mem

\* FileSystem::read_file, where it is Ok
read_file(w, p) ==
    IF w.backend = Os THEN os_read(w, p) ELSE w.mem[normalize_path(p)]

NL == "\n"

\* Result<(), TestsmithError> of a write, with the world after it
WriteOk(w) == [w |-> w, ok |-> TRUE, err |-> ""]

WriteErr(w, e) == [w |-> w, ok |-> FALSE, err |-> e]

\* FileSystem::create_parent_directories fails: the parent is missing and the
\* OS refuses to make it
create_parent_directories_fails(w, p) ==
    /\ w.backend = Os
    /\ has_parent(p)
    /\ parent(p) # << >>
    /\ ~os_exists(w, parent(p))
    /\ w.readonly

\* FileSystem::write_file_new: create_parent_directories, then the write.  On
\* the OS the write fails when the file system refuses it, when the target is
\* a directory and when the parent is a regular file.
write_file_new(w, p, content) ==
    IF create_parent_directories_fails(w, p) THEN WriteErr(w, "DirectoryCreateError")
    ELSE IF w.backend = Os
    THEN IF w.readonly \/ os_is_dir(w, p) \/ (has_parent(p) /\ os_is_file(w, parent(p)))
         THEN WriteErr(w, "FileWriteError")
         ELSE WriteOk([w EXCEPT !.disk = MapInsert(w.disk, abspath(p),
                                    [readable |-> TRUE, content |-> content, mtime |-> w.clock]),
                                !.dirs = @ \cup Ancestors(abspath(p))])
    ELSE WriteOk([w EXCEPT !.mem = MapInsert(w.mem, normalize_path(p), content)])

\* FileSystem::append_to_file: the OS backend writes the content and a line
\* end (writeln!), the memory backend a line end and then the content
append_to_file(w, p, content) ==
    IF w.backend = Os
    THEN IF ~os_is_file(w, p) \/ w.readonly
         THEN WriteErr(w, "FileWriteError")
         ELSE WriteOk([w EXCEPT !.disk[abspath(p)].content = @ \o content \o <<NL>>,
                                !.disk[abspath(p)].mtime = w.clock])
    ELSE IF normalize_path(p) \in DOMAIN w.mem
         THEN WriteOk([w EXCEPT !.mem[normalize_path(p)] = @ \o <<NL>> \o content])
         ELSE WriteErr(w, "FileWriteError")

-----------------------------------------------------------------------------
(* str::lines and the searches for a line                                  *)

\* str::lines: a final line end does not start another line
lines(c) ==
    With(Split(c, NL), LAMBDA ps :
        IF ps[Len(ps)] = << >> THEN Slice(ps, 1, Len(ps) - 1) ELSE ps)

\* the first line from the i-th on that contains one of the patterns, 0 when
\* there is none
RECURSIVE first_match(_, _, _)
first_match(ls, pats, i) ==
    IF i > Len(ls) THEN 0
    ELSE IF \E pat \in pats : Contains(ls[i], pat) THEN i
    ELSE first_match(ls, pats, i + 1)

\* lines().enumerate().find(|l| l.contains(a) || l.contains(b)).map(idx + 1),
\* 0 when no line matches
find_line(c, pats) == first_match(lines(c), pats, 1)

\* the texts the code searches for
CFG_TEST == <<"#[cfg(test)]">>

TEST_ATTR == <<"#[test]">>

TODO_COMMENT == <<"// ", "TODO">>

TODO_COLON == <<"TODO", ":">>

-----------------------------------------------------------------------------
(* config/project_root.rs                                                  *)

POM_XML == <<"pom", Dot, "xml">>

BUILD_GRADLE == <<"build", Dot, "gradle">>

BUILD_GRADLE_KTS == <<"build", Dot, "gradle", Dot, "kts">>

BUILD_SBT == <<"build", Dot, "sbt">>

CARGO_TOML == <<"Cargo", Dot, "toml">>

PACKAGE_JSON == <<"package", Dot, "json">>

PYPROJECT_TOML == <<"pyproject", Dot, "toml">>

SETUP_PY == <<"setup", Dot, "py">>

REQUIREMENTS_TXT == <<"requirements", Dot, "txt">>

config_files_for_language(language) ==
    CASE language = Java -> <<POM_XML, BUILD_GRADLE, BUILD_GRADLE_KTS, BUILD_SBT>>
      [] language \in {JavaScript, TypeScript} -> <<PACKAGE_JSON>>
      [] language = Rust -> <<CARGO_TOML>>
      [] language = Python -> <<PYPROJECT_TOML, SETUP_PY, REQUIREMENTS_TXT>>

\* Path::canonicalize, or the fallback of find_project_root when it fails:
\* an existing path is made absolute and normalised, a missing one is only
\* made absolute (no symbolic links in the modelled file system)
canonical_path(w, start_path) ==
    With(clean(abspath(start_path)), LAMBDA cleaned :
        IF os_exists(w, cleaned) THEN cleaned ELSE abspath(start_path))

\* Option<PathBuf>
SomePath(p) == [path |-> p, some |-> TRUE]

NonePath == [path |-> NoPath, some |-> FALSE]

\* a faulty loop, which prefers the match farthest from the start
RECURSIVE walk_up_outermost(_, _, _)
walk_up_outermost(w, current, files) ==
    With(IF ~has_parent(current) THEN NonePath
         ELSE IF parent(current) = current THEN NonePath
         ELSE walk_up_outermost(w, parent(current), files), LAMBDA above :
        IF above.some THEN above
        ELSE IF \E i \in 1..Len(files) : os_exists(w, join(current, files[i]))
        THEN SomePath(current)
        ELSE NonePath)

\* the loop of find_project_root: the first directory, going up from current,
\* that holds one of the files; None when the topmost directory is passed
RECURSIVE walk_up(_, _, _)
walk_up(w, current, files) ==
    IF \E i \in 1..Len(files) : os_exists(w, join(current, files[i])) THEN SomePath(current)
    ELSE IF ~has_parent(current) THEN NonePath
    ELSE IF parent(current) = current THEN NonePath
    ELSE walk_up(w, parent(current), files)

find_project_root(w, start_path, language) ==
    With(canonical_path(w, start_path), LAMBDA canonical :
        IF os_is_dir(w, canonical)
        THEN walk_up(w, canonical, config_files_for_language(language))
        ELSE IF ~has_parent(canonical) THEN NonePath
        ELSE walk_up(w, parent(canonical), config_files_for_language(language)))

-----------------------------------------------------------------------------
(* cache/mod.rs                                                            *)

\* ticks of the clock in one second: file times are finer than the cache's
\* whole seconds
TicksPerSec == 2

\* Duration::as_secs
as_secs(ticks) == ticks \div TicksPerSec

\* current_timestamp
current_timestamp(w) == as_secs(w.clock)

\* load_cache().unwrap_or_default(): an absent file is an empty cache, and so
\* is every failure to read or parse it
load_cache(w) ==
    IF w.cacheFile.state = "ok" THEN w.cacheFile.cache ELSE EmptyMap

\* save_cache: the whole file is overwritten; the world after it
save_cache(w, cache) ==
    IF w.cacheFile.writable
    THEN [w EXCEPT !.cacheFile = [state |-> "ok", cache |-> cache, writable |-> TRUE]]
    ELSE w

\* LanguageCache
LanguageCache(framework, structure, last_used) ==
    [framework |-> framework, structure |-> structure, last_used |-> last_used]

\* a faulty update_cache_entry, which starts the languages of the root anew
update_cache_entry_dropping_siblings(w, cache, project_root, language_str, framework, structure) ==
    MapInsert(cache, project_root,
              MapInsert(EmptyMap, language_str,
                        LanguageCache(fmt_debug(framework), fmt_debug(structure),
                                      current_timestamp(w))))

\* update_cache_entry: the cache after it
update_cache_entry(w, cache, project_root, language_str, framework, structure) ==
    MapInsert(cache, project_root,
              MapInsert(IF project_root \in DOMAIN cache THEN cache[project_root] ELSE EmptyMap,
                        language_str,
                        LanguageCache(fmt_debug(framework), fmt_debug(structure),
                                      current_timestamp(w))))

\* get_cache_entry is Some
has_cache_entry(cache, project_root, language_str) ==
    /\ project_root \in DOMAIN cache
    /\ language_str \in DOMAIN cache[project_root]

\* get_cache_entry, where it is Some
get_cache_entry(cache, project_root, language_str) == cache[project_root][language_str]

\* the modification time of a file, in ticks since the epoch (negative before it)
mtime_of(w, p) == w.disk[abspath(p)].mtime

\* a faulty is_cache_stale, which takes a file of the entry's own second for
\* a newer one (>= for >)
is_cache_stale_not_older(w, project_root, last_used, config_files) ==
    \E i \in 1..Len(config_files) :
        /\ os_is_file(w, join(project_root, config_files[i]))
        /\ mtime_of(w, join(project_root, config_files[i])) >= 0
        /\ as_secs(mtime_of(w, join(project_root, config_files[i]))) >= last_used

\* is_cache_stale: a path that has no metadata is skipped, and so is a
\* modification time before the epoch, which has no duration since it
\* (the marker paths of the modelled file systems are files, never directories)
is_cache_stale(w, project_root, last_used, config_files) ==
    \E i \in 1..Len(config_files) :
        /\ os_is_file(w, join(project_root, config_files[i]))
        /\ mtime_of(w, join(project_root, config_files[i])) >= 0
        /\ as_secs(mtime_of(w, join(project_root, config_files[i]))) > last_used

-----------------------------------------------------------------------------
(* config/framework_detector.rs                                            *)

\* the loop of the detector's own find_project_root: any manifest counts
RECURSIVE detector_walk_up(_, _)
detector_walk_up(w, current) ==
    IF \/ os_exists(w, join(current, CARGO_TOML))
       \/ os_exists(w, join(current, POM_XML))
       \/ os_exists(w, join(current, BUILD_GRADLE))
       \/ os_exists(w, join(current, BUILD_GRADLE_KTS))
       \/ os_exists(w, join(current, PACKAGE_JSON))
    THEN SomePath(current)
    ELSE IF ~has_parent(current) THEN NonePath
    ELSE IF parent(current) = current THEN NonePath
    ELSE detector_walk_up(w, parent(current))

\* framework_detector::find_project_root: the path is taken as it is given
detector_find_project_root(w, start_path) ==
    IF os_is_dir(w, start_path) THEN detector_walk_up(w, start_path)
    ELSE IF ~has_parent(start_path) THEN NonePath
    ELSE detector_walk_up(w, parent(start_path))

\* the signatures searched in the manifests
SIG_JUNIT_JUPITER == <<"junit", "-jupiter">>

SIG_ORG_JUNIT_JUPITER == <<"org.", "junit", ".jupiter">>

SIG_JUNIT_JUNIT == <<"junit", ":", "junit">>

SIG_JUNIT_ARTIFACT == <<"junit", "</artifactId>">>

SIG_TESTNG == <<"testng">>

SIG_ORG_TESTNG == <<"org.", "testng">>

SIG_USE_JUNIT4_SQ == <<"useJUnit(", "'", "4">>

SIG_USE_JUNIT4_DQ == <<"useJUnit(", "\"", "4">>

SIG_JEST == <<"jest">>

\* Some(framework), or None
detect_rust_framework(w, cargo_toml) ==
    IF os_readable(w, cargo_toml) THEN Native ELSE None

detect_java_maven_framework(w, pom_xml) ==
    IF os_readable(w, pom_xml)
    THEN With(os_read(w, pom_xml), LAMBDA content :
             IF Contains(content, SIG_JUNIT_JUPITER) \/ Contains(content, SIG_ORG_JUNIT_JUPITER)
             THEN JUnit
             ELSE IF Contains(content, SIG_JUNIT_JUNIT) \/ Contains(content, SIG_JUNIT_ARTIFACT)
             THEN JUnit4
             ELSE IF Contains(content, SIG_TESTNG) \/ Contains(content, SIG_ORG_TESTNG)
             THEN TestNG
             ELSE None)
    ELSE None

detect_java_gradle_framework(w, build_gradle) ==
    IF os_readable(w, build_gradle)
    THEN With(os_read(w, build_gradle), LAMBDA content :
             IF Contains(content, SIG_ORG_JUNIT_JUPITER) \/ Contains(content, SIG_JUNIT_JUPITER)
             THEN JUnit
             ELSE IF Contains(content, SIG_USE_JUNIT4_SQ) \/ Contains(content, SIG_USE_JUNIT4_DQ)
             THEN JUnit4
             ELSE IF Contains(content, SIG_JUNIT_JUNIT) /\ ~Contains(content, SIG_ORG_JUNIT_JUPITER)
             THEN JUnit4
             ELSE IF Contains(content, SIG_ORG_TESTNG) \/ Contains(content, SIG_TESTNG)
             THEN TestNG
             ELSE None)
    ELSE None

detect_js_framework(w, package_json) ==
    IF os_readable(w, package_json) /\ Contains(os_read(w, package_json), SIG_JEST)
    THEN Jest
    ELSE None

\* the Java arm of detect_framework: the first manifest, of pom.xml,
\* build.gradle and build.gradle.kts, that exists and names a framework
detect_java_framework(w, project_root) ==
    With(IF os_exists(w, join(project_root, POM_XML))
         THEN detect_java_maven_framework(w, join(project_root, POM_XML))
         ELSE None, LAMBDA maven :
    IF maven # None THEN maven
    ELSE With(IF os_exists(w, join(project_root, BUILD_GRADLE))
              THEN detect_java_gradle_framework(w, join(project_root, BUILD_GRADLE))
              ELSE None, LAMBDA gradle :
    IF gradle # None THEN gradle
    ELSE IF os_exists(w, join(project_root, BUILD_GRADLE_KTS))
    THEN detect_java_gradle_framework(w, join(project_root, BUILD_GRADLE_KTS))
    ELSE None))

\* detect_framework: Ok(Some(framework)), or None for Ok(None); it has no Err
detect_framework(w, source_path, language) ==
    With(detector_find_project_root(w, source_path), LAMBDA project_root :
        IF ~project_root.some THEN None
        ELSE CASE language = Rust ->
                    detect_rust_framework(w, join(project_root.path, CARGO_TOML))
               [] language = Java -> detect_java_framework(w, project_root.path)
               [] language \in {JavaScript, TypeScript} ->
                    detect_js_framework(w, join(project_root.path, PACKAGE_JSON))
               [] language = Python -> None)

-----------------------------------------------------------------------------
(* config/structure_detector.rs                                            *)

SRC_MAIN_JAVA == <<"src", Sep, "main", Sep, "java">>

SRC_TEST_JAVA == <<"src", Sep, "test", Sep, "java">>

detect_java_structure(w, project_root) ==
    IF os_exists(w, join(project_root, SRC_MAIN_JAVA)) /\ os_exists(w, join(project_root, SRC_TEST_JAVA))
    THEN Maven
    ELSE IF os_exists(w, join(project_root, BUILD_GRADLE)) \/ os_exists(w, join(project_root, BUILD_GRADLE_KTS))
    THEN Gradle
    ELSE Maven

detect_rust_structure(w, project_root) ==
    IF os_is_dir(w, join(project_root, <<"tests">>)) THEN SameFile ELSE SameFile

detect_js_structure(w, project_root) ==
    IF os_is_dir(w, join(project_root, <<"__tests__">>)) THEN Flat
    ELSE IF os_is_dir(w, join(project_root, <<"tests">>)) THEN Flat
    ELSE IF os_is_dir(w, join(project_root, <<"test">>)) THEN Flat
    ELSE SameFile

detect_python_structure(w, project_root) ==
    IF os_is_dir(w, join(project_root, <<"tests">>)) THEN Flat
    ELSE IF os_is_dir(w, join(project_root, <<"test">>)) THEN Flat
    ELSE SameFile

\* detect_structure: it is always Ok
detect_structure(w, project_root, language) ==
    CASE language = Java -> detect_java_structure(w, project_root)
      [] language = Rust -> detect_rust_structure(w, project_root)
      [] language \in {JavaScript, TypeScript} -> detect_js_structure(w, project_root)
      [] language = Python -> detect_python_structure(w, project_root)

-----------------------------------------------------------------------------
(* resolver/maven.rs, resolver/same_file.rs                                *)

SRC_MAIN == <<"src", Sep, "main">>

SRC_TEST == <<"src", Sep, "test">>

BackSlash == "\\"

SRC_MAIN_WIN == <<"src", BackSlash, "main">>

SRC_TEST_WIN == <<"src", BackSlash, "test">>

TEST_SUFFIX == <<"Test">>

\* Result<PathBuf, TestsmithError>
OkPath(p) == [path |-> p, ok |-> TRUE, err |-> ""]

ErrPath(e, p) == [path |-> p, ok |-> FALSE, err |-> e]

\* maven.rs:53-67: the file name with Test put before its last dot, or at its
\* end when it has no dot
test_file_name(file_name_str) ==
    With(RFind(file_name_str, Dot), LAMBDA dot_idx :
        IF dot_idx > 0
        THEN Slice(file_name_str, 1, dot_idx - 1) \o TEST_SUFFIX
             \o Slice(file_name_str, dot_idx, Len(file_name_str))
        ELSE file_name_str \o TEST_SUFFIX)

\* MavenResolver::transform_path (the paths of the model are valid UTF-8)
transform_path(source_path) ==
    With(clean(source_path), LAMBDA path_str :
    IF ~Contains(path_str, SRC_MAIN) /\ ~Contains(path_str, SRC_MAIN_WIN)
    THEN ErrPath("InvalidPath", source_path)
    ELSE With(Replace(Replace(path_str, SRC_MAIN, SRC_TEST), SRC_MAIN_WIN, SRC_TEST_WIN),
              LAMBDA test_path_str :
         IF ~has_file_name(test_path_str) THEN ErrPath("InvalidPath", source_path)
         ELSE OkPath(clean(join(IF has_parent(test_path_str) THEN parent(test_path_str)
                                 ELSE << >>,
                                test_file_name(file_name(test_path_str)))))))

\* a faulty MavenResolver::resolve_test_path, which rewrites the path before
\* it looks for the source file
maven_resolve_test_path_rewriting_first(w, source_path) ==
    IF ~transform_path(source_path).ok THEN transform_path(source_path)
    ELSE IF ~file_exists(w, source_path) THEN ErrPath("FileNotFound", source_path)
    ELSE transform_path(source_path)

\* MavenResolver::resolve_test_path
maven_resolve_test_path(w, source_path) ==
    IF ~file_exists(w, source_path) THEN ErrPath("FileNotFound", source_path)
    ELSE transform_path(source_path)

\* SameFileResolver::resolve_test_path
same_file_resolve_test_path(w, source_path) ==
    IF ~file_exists(w, source_path) THEN ErrPath("FileNotFound", source_path)
    ELSE OkPath(source_path)

\* the resolver generate() picks for a structure, applied
resolve_test_path(w, structure, source_path) ==
    CASE structure \in {Maven, Gradle} -> maven_resolve_test_path(w, source_path)
      [] structure = SameFile -> same_file_resolve_test_path(w, source_path)
      [] structure = Flat -> maven_resolve_test_path(w, source_path)

-----------------------------------------------------------------------------
(* template/*.rs                                                           *)

\* white space, as char::is_whitespace sees the atoms
WhiteSpace == {NL, " ", "    ", "        "}

\* the atoms made of word characters only (\w of the regex)
WordAtoms == {"com", "example", "p", "Foo", "Bar", "Test", "lib", "main", "java", "rs"}

RECURSIVE DropWhileIn(_, _)
DropWhileIn(s, set) ==
    IF s # << >> /\ Head(s) \in set THEN DropWhileIn(Tail(s), set) ELSE s

RECURSIVE TakeWhileIn(_, _)
TakeWhileIn(s, set) ==
    IF s # << >> /\ Head(s) \in set THEN <<Head(s)>> \o TakeWhileIn(Tail(s), set) ELSE << >>

\* Option<String>
SomeText(t) == [some |-> TRUE, text |-> t]

NoText == [some |-> FALSE, text |-> << >>]

\* the tail ([\w\.]+)\s*; of the package regex on the text after the white
\* space that follows the keyword: its capture, or NoText
package_capture(c) ==
    With(TakeWhileIn(c, WordAtoms \cup {Dot}), LAMBDA name :
    With(DropWhileIn(Slice(c, Len(name) + 1, Len(c)), WhiteSpace), LAMBDA d :
        IF name = << >> \/ d = << >> \/ Head(d) # ";" THEN NoText ELSE SomeText(name)))

\* the regex ^\s*package\s+([\w\.]+)\s*; on one line: its capture, or NoText
package_regex(line) ==
    With(DropWhileIn(line, WhiteSpace), LAMBDA a :
        IF a = << >> \/ Head(a) # "package" THEN NoText
        ELSE IF DropWhileIn(Tail(a), WhiteSpace) = Tail(a) THEN NoText
        ELSE package_capture(DropWhileIn(Tail(a), WhiteSpace)))

\* the capture of the first line from the i-th on that the regex matches
RECURSIVE first_package(_, _)
first_package(ls, i) ==
    IF i > Len(ls) THEN NoText
    ELSE IF package_regex(ls[i]).some THEN package_regex(ls[i])
    ELSE first_package(ls, i + 1)

\* JavaJunitTemplate::extract_package_name: Ok(Some(name)), or NoText for
\* Ok(None) and for Err, which generate() treats alike.  It reads the OS file
\* system whatever the backend of fs.
extract_package_name(w, source_path) ==
    IF ~os_readable(w, source_path) THEN NoText
    ELSE first_package(lines(os_read(w, source_path)), 1)

TEST_JAVA == <<"Test", Dot, "java">>

DOT_JAVA == <<Dot, "java">>

\* JavaJunitTemplate::extract_class_name: Ok(name), or NoText for Err
extract_class_name(path) ==
    IF ~has_file_name(path) THEN NoText
    ELSE With(file_name(path), LAMBDA name :
             IF EndsWith(name, TEST_JAVA) THEN SomeText(TrimEndMatches(name, TEST_JAVA))
             ELSE IF EndsWith(name, DOT_JAVA) THEN SomeText(TrimEndMatches(name, DOT_JAVA))
             ELSE SomeText(name))

\* TemplateContext: the fields the generators read
TemplateContext(class_name, package_name) ==
    [class_name |-> class_name, package_name |-> package_name]

TODO_LINE == <<"        ", "// ", "TODO", ":", " Implement test", NL>>

package_part(context) ==
    IF context.package_name.some
    THEN <<"package", " ">> \o context.package_name.text \o <<";", NL, NL>>
    ELSE << >>

test_class_name(context) ==
    (IF context.class_name.some THEN context.class_name.text ELSE <<"Example">>) \o TEST_SUFFIX

\* JavaJunitTemplate::generate
java_junit_generate(context) ==
    package_part(context)
    \o <<"import org.junit.jupiter.api.Test;", NL,
         "import static org.junit.jupiter.api.Assertions.*;", NL, NL, "class ">>
    \o test_class_name(context)
    \o <<" {", NL, "    ", "@Test", NL, "    ", "void testExample() {", NL>>
    \o TODO_LINE
    \o <<"    ", "}", NL, "}", NL>>

\* JavaJunit4Template::generate
java_junit4_generate(context) ==
    package_part(context)
    \o <<"import org.junit.Test;", NL,
         "import static org.junit.Assert.*;", NL, NL, "public class ">>
    \o test_class_name(context)
    \o <<" {", NL, "    ", "@Test", NL, "    ", "public void testExample() {", NL>>
    \o TODO_LINE
    \o <<"    ", "}", NL, "}", NL>>

\* str::trim_start
trim_start(s) == DropWhileIn(s, WhiteSpace)

\* RustNativeTemplate::generate
rust_native_generate(context) ==
    trim_start(<<NL, "#[cfg(test)]", NL, "mod tests {", NL, "    ", "use super::*;", NL, NL,
                 "    ", "#[test]", NL, "    ", "fn test_example() {", NL>>
               \o TODO_LINE
               \o <<"    ", "}", NL, "}", NL>>)

\* TemplateRegistry::new: the registered pairs
registry == {<<Java, JUnit>>, <<Java, JUnit4>>, <<Rust, Native>>}

\* TemplateRegistry::get_generator is Ok
get_generator_ok(language, framework) == <<language, framework>> \in registry

\* TemplateGenerator::generate of the generator get_generator returns
template_generate(language, framework, context) ==
    CASE <<language, framework>> = <<Java, JUnit>> -> java_junit_generate(context)
      [] <<language, framework>> = <<Java, JUnit4>> -> java_junit4_generate(context)
      [] <<language, framework>> = <<Rust, Native>> -> rust_native_generate(context)

-----------------------------------------------------------------------------
(* generator.rs                                                            *)

\* GeneratorOptions
GeneratorOptions(structure, language, framework, create, dry_run) ==
    [language |-> language, framework |-> framework, structure |-> structure,
     create |-> create, dry_run |-> dry_run]

\* Ok(GeneratorResult)
OkResult(test_file_path, created, dry_run, line_number) ==
    [ok |-> TRUE, err |-> "", dry_run |-> dry_run, test_file_path |-> test_file_path,
     created |-> created, line_number |-> line_number, err_path |-> NoPath]

\* Err(TestsmithError): the variant, and the path it carries if any
ErrResult(err, err_path) ==
    [ok |-> FALSE, err |-> err, dry_run |-> FALSE, test_file_path |-> NoPath,
     created |-> FALSE, line_number |-> 0, err_path |-> err_path]

\* what a call decided on its way; a field a call did not reach keeps this value
NoTrace ==
    [language |-> None, framework |-> None, structure |-> None,
     project_root |-> NonePath, test_file_path |-> NoPath, tier |-> None,
     structure_from |-> None, cache_updated |-> FALSE, lookup |-> << >>,
     wrote |-> FALSE]

\* what generate() returns and leaves behind: the result, the world after the
\* call, and the call's trace
Outcome(res, w, trace) == [w |-> w, res |-> res, trace |-> trace]

\* generator.rs:70-78: the cached framework string, decoded
parse_framework(str) ==
    CASE str = "JUnit" -> JUnit
      [] str = "JUnit4" -> JUnit4
      [] str = "TestNG" -> TestNG
      [] str = "Native" -> Native
      [] str = "Jest" -> Jest
      [] str = "Pytest" -> Pytest
      [] OTHER -> None

\* generator.rs:108-114: the cached structure string, decoded
parse_structure(str, fallback) ==
    CASE str = "Maven" -> Maven
      [] str = "Gradle" -> Gradle
      [] str = "SameFile" -> SameFile
      [] str = "Flat" -> Flat
      [] OTHER -> fallback

\* generator.rs:60-81: Some(framework) of a cache entry that is not stale
cached_framework(w, cache, project_root, language) ==
    IF /\ project_root.some
       /\ has_cache_entry(cache, project_root.path, fmt_debug(language))
       /\ ~is_cache_stale(w, project_root.path,
                          get_cache_entry(cache, project_root.path, fmt_debug(language)).last_used,
                          config_files_for_language(language))
    THEN parse_framework(get_cache_entry(cache, project_root.path, fmt_debug(language)).framework)
    ELSE None

\* the framework a tier yields, and whether validate_combination accepts it
Determined(framework, tier, valid) == [framework |-> framework, tier |-> tier, valid |-> valid]

\* a faulty framework resolution, which asks the manifests before the cache
determine_framework_detecting_first(w, cache, project_root, source_path, language, options) ==
    IF options.framework # None
    THEN Determined(options.framework, "explicit",
                    validate_combination(language, options.framework))
    ELSE With(detect_framework(w, source_path, language), LAMBDA detected :
    IF detected # None
    THEN Determined(detected, "detected", validate_combination(language, detected))
    ELSE With(cached_framework(w, cache, project_root, language), LAMBDA cached :
    IF cached # None
    THEN Determined(cached, "cache", validate_combination(language, cached))
    ELSE Determined(default_framework_for_language(language), "default", "Ok")))

\* a faulty framework resolution, which takes the cached framework unvalidated
determine_framework_trusting_cache(w, cache, project_root, source_path, language, options) ==
    IF options.framework # None
    THEN Determined(options.framework, "explicit",
                    validate_combination(language, options.framework))
    ELSE With(cached_framework(w, cache, project_root, language), LAMBDA cached :
    IF cached # None
    THEN Determined(cached, "cache", "Ok")
    ELSE With(detect_framework(w, source_path, language), LAMBDA detected :
    IF detected # None
    THEN Determined(detected, "detected", validate_combination(language, detected))
    ELSE Determined(default_framework_for_language(language), "default", "Ok")))

\* generator.rs:54-100: the framework, the tier it comes from, and "Ok" or the
\* error of its validation
determine_framework(w, cache, project_root, source_path, language, options) ==
    IF options.framework # None
    THEN Determined(options.framework, "explicit",
                    validate_combination(language, options.framework))
    ELSE With(cached_framework(w, cache, project_root, language), LAMBDA cached :
    IF cached # None
    THEN Determined(cached, "cache", validate_combination(language, cached))
    ELSE With(detect_framework(w, source_path, language), LAMBDA detected :
    IF detected # None
    THEN Determined(detected, "detected", validate_combination(language, detected))
    ELSE Determined(default_framework_for_language(language), "default", "Ok")))

\* the structure, and where it comes from
Structured(from, structure) == [from |-> from, structure |-> structure]

\* a faulty structure resolution, which lets the cache override every
\* structure of the caller
determine_structure_cache_first(w, cache, project_root, language, options) ==
    IF project_root.some
    THEN IF has_cache_entry(cache, project_root.path, fmt_debug(language))
         THEN Structured("cache", parse_structure(
                  get_cache_entry(cache, project_root.path, fmt_debug(language)).structure,
                  options.structure))
         ELSE IF options.structure = Maven
         THEN Structured("detected", detect_structure(w, project_root.path, language))
         ELSE Structured("options", options.structure)
    ELSE Structured("options", options.structure)

\* generator.rs:102-125
determine_structure(w, cache, project_root, language, options) ==
    IF options.structure = Maven
    THEN IF project_root.some
         THEN IF has_cache_entry(cache, project_root.path, fmt_debug(language))
              THEN Structured("cache", parse_structure(
                       get_cache_entry(cache, project_root.path, fmt_debug(language)).structure,
                       options.structure))
              ELSE Structured("detected", detect_structure(w, project_root.path, language))
         ELSE Structured("options", options.structure)
    ELSE Structured("options", options.structure)

\* a faulty default, which leaves the line at 0 when the search found none
line_as_found(found) == found

\* the line a search found, or 1 (unwrap_or(1))
line_or_first(found) == IF found # 0 THEN found ELSE 1

\* generator.rs:158-178: the cursor line of a file that has a test module
found_line_with_module(w, test_file_path) ==
    IF read_file_ok(w, test_file_path)
    THEN With(find_line(read_file(w, test_file_path), {TEST_ATTR}), LAMBDA test_line :
             IF test_line # 0 THEN test_line
             ELSE line_or_first(find_line(read_file(w, test_file_path), {TODO_COMMENT})))
    ELSE 1

\* generator.rs:188-197: the cursor line of a separate test file that exists
found_line_without_module(w, test_file_path) ==
    IF read_file_ok(w, test_file_path)
    THEN line_or_first(find_line(read_file(w, test_file_path), {TODO_COMMENT, TODO_COLON}))
    ELSE 1

\* a faulty cursor line, which counts within the generated block only
created_line_within_block(w, structure, test_file_path, content) ==
    line_or_first(find_line(content, {TODO_COMMENT}))

\* generator.rs:242-267: the cursor line of the content about to be written
created_line(w, structure, test_file_path, content) ==
    IF structure = SameFile
    THEN IF read_file_ok(w, test_file_path)
         THEN Len(lines(read_file(w, test_file_path)))
              + line_or_first(find_line(content, {TODO_COMMENT}))
         ELSE 1
    ELSE line_or_first(find_line(content, {TODO_COMMENT}))

\* generator.rs:218-240: the template context of the source, rendered
generated_content(w, source_path, language, framework) ==
    template_generate(language, framework,
        TemplateContext(IF language = Java THEN extract_class_name(source_path) ELSE NoText,
                        IF language = Java THEN extract_package_name(w, source_path)
                        ELSE NoText))

\* generator.rs:269-278: the write of a run that is not a dry run
write_test_file(w, structure, test_file_path, content) ==
    IF structure = SameFile THEN append_to_file(w, test_file_path, content)
    ELSE write_file_new(w, test_file_path, content)

\* a faulty generation, which writes in a dry run too
generate_test_file_ignoring_dry_run(w, source_path, language, framework, structure, test_file_path, options, trace) ==
    IF ~get_generator_ok(language, framework)
    THEN Outcome(ErrResult("InvalidCombination", NoPath), w, trace)
    ELSE With(generated_content(w, source_path, language, framework), LAMBDA content :
         With(created_line(w, structure, test_file_path, content), LAMBDA line_number :
         With(write_test_file(w, structure, test_file_path, content), LAMBDA written :
              IF ~written.ok
              THEN Outcome(ErrResult(written.err, test_file_path), w, trace)
              ELSE Outcome(OkResult(test_file_path, TRUE, options.dry_run, line_number),
                           written.w, [trace EXCEPT !.wrote = TRUE]))))

\* a faulty generation, which has an error of its own for a pair without a
\* generator
generate_test_file_with_template_error(w, source_path, language, framework, structure, test_file_path, options, trace) ==
    IF ~get_generator_ok(language, framework)
    THEN Outcome(ErrResult("TemplateError", NoPath), w, trace)
    ELSE With(generated_content(w, source_path, language, framework), LAMBDA content :
         With(created_line(w, structure, test_file_path, content), LAMBDA line_number :
         IF options.dry_run
         THEN Outcome(OkResult(test_file_path, TRUE, TRUE, line_number), w, trace)
         ELSE With(write_test_file(w, structure, test_file_path, content), LAMBDA written :
              IF ~written.ok
              THEN Outcome(ErrResult(written.err, test_file_path), w, trace)
              ELSE Outcome(OkResult(test_file_path, TRUE, FALSE, line_number), written.w,
                           [trace EXCEPT !.wrote = TRUE]))))

\* generator.rs:214-286: generation, once the test is known to be missing
generate_test_file(w, source_path, language, framework, structure, test_file_path, options, trace) ==
    IF ~get_generator_ok(language, framework)
    THEN Outcome(ErrResult("InvalidCombination", NoPath), w, trace)
    ELSE With(generated_content(w, source_path, language, framework), LAMBDA content :
         With(created_line(w, structure, test_file_path, content), LAMBDA line_number :
         IF options.dry_run
         THEN Outcome(OkResult(test_file_path, TRUE, TRUE, line_number), w, trace)
         ELSE With(write_test_file(w, structure, test_file_path, content), LAMBDA written :
              IF ~written.ok
              THEN Outcome(ErrResult(written.err, test_file_path), w, trace)
              ELSE Outcome(OkResult(test_file_path, TRUE, FALSE, line_number), written.w,
                           [trace EXCEPT !.wrote = TRUE]))))

\* generator.rs:143-156: the test file is there
test_exists(w, structure, test_file_path) ==
    IF structure = SameFile THEN read_file_ok(w, test_file_path)
    ELSE file_exists(w, test_file_path)

\* generator.rs:147-151: the file holds a test module (same-file structure only)
has_test_module(w, structure, test_file_path) ==
    /\ structure = SameFile
    /\ read_file_ok(w, test_file_path)
    /\ Contains(read_file(w, test_file_path), CFG_TEST)

\* a faulty state machine, which creates the missing test whatever the
\* create flag
visit_test_file_always_creating(w, source_path, language, framework, structure, test_file_path, options, trace) ==
    IF test_exists(w, structure, test_file_path)
       /\ has_test_module(w, structure, test_file_path)
    THEN Outcome(OkResult(test_file_path, FALSE, FALSE,
                          found_line_with_module(w, test_file_path)), w, trace)
    ELSE IF /\ test_exists(w, structure, test_file_path)
            /\ ~has_test_module(w, structure, test_file_path)
            /\ structure # SameFile
    THEN Outcome(OkResult(test_file_path, FALSE, FALSE,
                          found_line_without_module(w, test_file_path)), w, trace)
    ELSE generate_test_file(w, source_path, language, framework, structure,
                            test_file_path, options,
                            [trace EXCEPT !.lookup = <<language, framework>>])

\* a faulty state machine, which asks for the create flag before it looks at
\* the test that exists
visit_test_file_asking_create_first(w, source_path, language, framework, structure, test_file_path, options, trace) ==
    IF ~options.create
    THEN Outcome(ErrResult("FileNotFound", test_file_path), w, trace)
    ELSE IF test_exists(w, structure, test_file_path)
            /\ has_test_module(w, structure, test_file_path)
    THEN Outcome(OkResult(test_file_path, FALSE, FALSE,
                          found_line_with_module(w, test_file_path)), w, trace)
    ELSE IF /\ test_exists(w, structure, test_file_path)
            /\ ~has_test_module(w, structure, test_file_path)
            /\ structure # SameFile
    THEN Outcome(OkResult(test_file_path, FALSE, FALSE,
                          found_line_without_module(w, test_file_path)), w, trace)
    ELSE generate_test_file(w, source_path, language, framework, structure,
                            test_file_path, options,
                            [trace EXCEPT !.lookup = <<language, framework>>])

\* a faulty state machine, which takes a same-file target without a test
\* module for an existing test, as it does a test file of its own
visit_test_file_finding_unanchored(w, source_path, language, framework, structure, test_file_path, options, trace) ==
    IF test_exists(w, structure, test_file_path)
       /\ has_test_module(w, structure, test_file_path)
    THEN Outcome(OkResult(test_file_path, FALSE, FALSE,
                          found_line_with_module(w, test_file_path)), w, trace)
    ELSE IF /\ test_exists(w, structure, test_file_path)
            /\ ~has_test_module(w, structure, test_file_path)
    THEN Outcome(OkResult(test_file_path, FALSE, FALSE,
                          found_line_without_module(w, test_file_path)), w, trace)
    ELSE IF ~options.create
    THEN Outcome(ErrResult("FileNotFound", test_file_path), w, trace)
    ELSE generate_test_file(w, source_path, language, framework, structure,
                            test_file_path, options,
                            [trace EXCEPT !.lookup = <<language, framework>>])

\* generator.rs:143-286: the existing-file state machine on the resolved path
visit_test_file(w, source_path, language, framework, structure, test_file_path, options, trace) ==
    IF test_exists(w, structure, test_file_path)
       /\ has_test_module(w, structure, test_file_path)
    THEN Outcome(OkResult(test_file_path, FALSE, FALSE,
                          found_line_with_module(w, test_file_path)), w, trace)
    ELSE IF /\ test_exists(w, structure, test_file_path)
            /\ ~has_test_module(w, structure, test_file_path)
            /\ structure # SameFile
    THEN Outcome(OkResult(test_file_path, FALSE, FALSE,
                          found_line_without_module(w, test_file_path)), w, trace)
    ELSE IF ~options.create
    THEN Outcome(ErrResult("FileNotFound", test_file_path), w, trace)
    ELSE generate_test_file(w, source_path, language, framework, structure,
                            test_file_path, options,
                            [trace EXCEPT !.lookup = <<language, framework>>])

\* generator.rs:133-141: path resolution, then the state machine
locate_test_file(w, source_path, language, framework, structure, options, trace) ==
    With(resolve_test_path(w, structure, source_path), LAMBDA resolved :
        IF ~resolved.ok THEN Outcome(ErrResult(resolved.err, resolved.path), w, trace)
        ELSE visit_test_file(w, source_path, language, framework, structure,
                             resolved.path, options,
                             [trace EXCEPT !.test_file_path = resolved.path]))

\* a faulty run, which stores an entry only where the cache holds none for
\* the project root and the language
remember_first_use(w, cache, project_root, language, framework, structure) ==
    IF project_root.some /\ ~has_cache_entry(cache, project_root.path, fmt_debug(language))
    THEN save_cache(w, update_cache_entry(w, cache, project_root.path, fmt_debug(language),
                                          framework, structure))
    ELSE w

\* generator.rs:127-131: the cache entry is updated and the cache saved when
\* a project root was found; the world after it
remember(w, cache, project_root, language, framework, structure) ==
    IF project_root.some
    THEN save_cache(w, update_cache_entry(w, cache, project_root.path, fmt_debug(language),
                                          framework, structure))
    ELSE w

\* a faulty run, which propagates the failure of save_cache (? for let _ =)
generate_in_project_failing_on_save(w, source_path, options, language, cache, project_root) ==
    With(determine_framework(w, cache, project_root, source_path, language, options),
         LAMBDA fw :
    IF fw.valid # "Ok"
    THEN Outcome(ErrResult(fw.valid, NoPath), w,
                 [NoTrace EXCEPT !.language = language, !.project_root = project_root,
                                 !.tier = fw.tier])
    ELSE IF project_root.some /\ ~w.cacheFile.writable
    THEN Outcome(ErrResult("CacheError", NoPath), w,
                 [NoTrace EXCEPT !.language = language, !.project_root = project_root,
                                 !.tier = fw.tier])
    ELSE With(determine_structure(w, cache, project_root, language, options), LAMBDA st :
         locate_test_file(
             remember(w, cache, project_root, language, fw.framework, st.structure),
             source_path, language, fw.framework, st.structure, options,
             [NoTrace EXCEPT !.language = language, !.framework = fw.framework,
                             !.project_root = project_root, !.structure = st.structure,
                             !.tier = fw.tier, !.structure_from = st.from,
                             !.cache_updated = project_root.some])))

\* generator.rs:47-141: the run of a known language in its project
generate_in_project(w, source_path, options, language, cache, project_root) ==
    With(determine_framework(w, cache, project_root, source_path, language, options),
         LAMBDA fw :
    IF fw.valid # "Ok"
    THEN Outcome(ErrResult(fw.valid, NoPath), w,
                 [NoTrace EXCEPT !.language = language, !.project_root = project_root,
                                 !.tier = fw.tier])
    ELSE With(determine_structure(w, cache, project_root, language, options), LAMBDA st :
         locate_test_file(
             remember(w, cache, project_root, language, fw.framework, st.structure),
             source_path, language, fw.framework, st.structure, options,
             [NoTrace EXCEPT !.language = language, !.framework = fw.framework,
                             !.project_root = project_root, !.structure = st.structure,
                             !.tier = fw.tier, !.structure_from = st.from,
                             !.cache_updated = project_root.some])))

\* generator.rs:40-45: the caller's language, or the one of the extension
select_language(source_path, options) ==
    IF options.language # None THEN options.language ELSE detect_language(source_path)

\* generate
generate(w, source_path, options) ==
    With(select_language(source_path, options), LAMBDA language :
        IF language \notin Language
        THEN Outcome(ErrResult(language, NoPath), w, NoTrace)
        ELSE generate_in_project(w, source_path, options, language, load_cache(w),
                                 find_project_root(w, source_path, language)))

-----------------------------------------------------------------------------
(* The bounded worlds                                                      *)

\* seconds that pass in one behaviour
MaxTicks == 1

\* the time of the first state: two seconds after the epoch
StartClock == 2 * TicksPerSec

\* the modification time of the manifests at first: within the second 1
MarkerTime == TicksPerSec + 1

Proj == <<Sep, "proj">>

JavaSrc == <<Sep, "proj", Sep, "src", Sep, "main", Sep, "java", Sep, "Foo", Dot, "java">>

JavaTest == <<Sep, "proj", Sep, "src", Sep, "test", Sep, "java", Sep, "Foo", "Test", Dot, "java">>

RustSrc == <<Sep, "proj", Sep, "src", Sep, "lib", Dot, "rs">>

SourcePaths == {JavaSrc, RustSrc}

\* file contents
JavaWithPackage ==
    <<"package", " ", "com", Dot, "example", ";", NL, NL, "public class Foo {}", NL>>

JavaTestWithTodo ==
    <<"class FooTest {", NL, "    ", "TODO", ":", " write tests", NL, "}", NL>>

RustPlain == <<"pub fn f() {}">>

RustWithTests ==
    <<"pub fn f() {}", NL, "#[cfg(test)]", NL, "mod tests {", NL, "    ", "#[test]", NL,
      "    ", "fn t() {}", NL, "}", NL>>

PomJupiter == <<"<artifactId>", "junit", "-jupiter", "</artifactId>">>

PomJUnit4 == <<"<artifactId>", "junit", "</artifactId>">>

GradleJUnit4 == <<"useJUnit(", "'", "4", ".13')">>

CargoPlain == <<"[package]">>

File(content, mtime) == [readable |-> TRUE, content |-> content, mtime |-> mtime]

\* a map from the pairs <<key, value>> of a set with distinct keys
MapOf(pairs) == [k \in {pr[1] : pr \in pairs} |-> (CHOOSE pr \in pairs : pr[1] = k)[2]]

\* the choices of each part of the initial world: sets of <<path, content>>
JavaSrcThere == {<<JavaSrc, JavaWithPackage>>}

JavaSrcChoices == {{}, JavaSrcThere}

RustSrcPlain == {<<RustSrc, RustPlain>>}

RustSrcChoices == {{}, RustSrcPlain, {<<RustSrc, RustWithTests>>}}

JavaTestChoices == {{}, {<<JavaTest, JavaTestWithTodo>>}}

PomThere == {<<join(Proj, POM_XML), PomJupiter>>}

ManifestChoices ==
    {{}, PomThere, {<<join(Proj, POM_XML), PomJUnit4>>},
     {<<join(Proj, BUILD_GRADLE), GradleJUnit4>>}}

CargoThere == {<<join(Proj, CARGO_TOML), CargoPlain>>}

CargoChoices == {{}, CargoThere}

CacheOf(language_str, entry) == MapInsert(EmptyMap, Proj, MapInsert(EmptyMap, language_str, entry))

CacheFileOk(cache) == [state |-> "ok", cache |-> cache, writable |-> TRUE]

CacheFileAbsent == [state |-> "absent", cache |-> EmptyMap, writable |-> TRUE]

\* no file; a file that cannot be parsed nor replaced; an entry of the second
\* 1, which the manifests of MarkerTime do not outdate, and one of the second
\* 0, which they do; an entry whose framework does not fit Java; an entry
\* whose strings are not the Debug text of a variant; an entry for Rust
CacheFileChoices ==
    {CacheFileAbsent,
     [state |-> "corrupt", cache |-> EmptyMap, writable |-> FALSE],
     CacheFileOk(CacheOf("Java", LanguageCache("JUnit4", "SameFile", 1))),
     CacheFileOk(CacheOf("Java", LanguageCache("JUnit4", "SameFile", 0))),
     CacheFileOk(CacheOf("Java", LanguageCache("Pytest", "Gradle", 1))),
     CacheFileOk(CacheOf("Java", LanguageCache("junit", "maven", 1))),
     CacheFileOk(CacheOf("Rust", LanguageCache("Native", "Flat", 1)))}

StructureChoices == StructureType

LanguageChoices == {None, Python}

FrameworkChoices == {None, JUnit4, Native, Pytest}

\* the files that are there but cannot be read
HiddenChoices == {{}, {RustSrc}}

-----------------------------------------------------------------------------
(* The state machine                                                       *)

\* the world the call sees
World ==
    [backend |-> backend, disk |-> disk, dirs |-> dirs, readonly |-> readonly,
     mem |-> mem, cacheFile |-> cacheFile, clock |-> clock]

NoCall == [op |-> "none"]

\* the files handed to generate() through fs live in the backend of fs, the
\* manifests always on the OS file system; the files of hidden are there but
\* cannot be read (write-only permissions)
InitWorld(b, ro, sources, manifests, cf, hidden) ==
    /\ backend = b
    /\ disk = MapOf({<<pr[1], File(pr[2], MarkerTime)>> : pr \in manifests}
                    \cup (IF b = Os
                          THEN {<<pr[1], [File(pr[2], 0) EXCEPT !.readable = pr[1] \notin hidden]>> :
                                   pr \in sources}
                          ELSE {}))
    /\ dirs = UNION {Ancestors(pr[1]) : pr \in manifests \cup (IF b = Os THEN sources ELSE {})}
    /\ readonly = ro
    /\ mem = IF b = Memory THEN MapOf(sources) ELSE EmptyMap
    /\ cacheFile = cf
    /\ clock = StartClock
    /\ last = NoCall

\* the worlds where the manifests and the cache vary, and those where the
\* backend, the source and test files and the permissions of the Rust source do
Init ==
    \/ \E jt \in JavaTestChoices, mf \in ManifestChoices, cg \in CargoChoices,
          cf \in CacheFileChoices :
           InitWorld(Os, FALSE, JavaSrcThere \cup RustSrcPlain \cup jt, mf \cup cg, cf, {})
    \/ \E b \in {Os, Memory}, ro \in BOOLEAN, js \in JavaSrcChoices, rs \in RustSrcChoices,
          jt \in JavaTestChoices, hidden \in HiddenChoices :
           /\ (ro => b = Os)
           /\ (hidden # {} => (b = Os /\ rs = RustSrcPlain))
           /\ InitWorld(b, ro, js \cup rs \cup jt, PomThere \cup CargoThere, CacheFileAbsent,
                        hidden)

\* the effect of a call on the state
Return(source_path, options, before, out) ==
    /\ disk' = out.w.disk
    /\ dirs' = out.w.dirs
    /\ mem' = out.w.mem
    /\ cacheFile' = out.w.cacheFile
    /\ last' = [source_path |-> source_path, res |-> out.res, trace |-> out.trace,
                options |-> options, op |-> "generate", before |-> before]

\* one call of generate()
Run(source_path, options) ==
    /\ Return(source_path, options, World, generate(World, source_path, options))
    /\ UNCHANGED <<backend, readonly, clock>>

\* the call of generate() of one process: a behaviour is the history of the
\* world up to a call, and the call
Generate ==
    /\ last = NoCall
    /\ \E source_path \in SourcePaths, structure \in StructureChoices,
          language \in LanguageChoices, framework \in FrameworkChoices,
          create \in BOOLEAN, dry_run \in BOOLEAN :
           Run(source_path,
               GeneratorOptions(structure, language, framework, create, dry_run))

\* a second passes
Tick ==
    /\ last = NoCall
    /\ clock < StartClock + MaxTicks * TicksPerSec
    /\ clock' = clock + TicksPerSec
    /\ UNCHANGED <<backend, disk, dirs, readonly, mem, cacheFile, last>>

\* the Maven manifest is edited: its modification time becomes now
Touch ==
    /\ last = NoCall
    /\ join(Proj, POM_XML) \in DOMAIN disk
    /\ disk[join(Proj, POM_XML)].mtime < clock
    /\ disk' = [disk EXCEPT ![join(Proj, POM_XML)].mtime = clock]
    /\ UNCHANGED <<backend, dirs, readonly, mem, cacheFile, clock, last>>

Next == Generate \/ Tick \/ Touch

Spec == Init /\ [][Next]_vars

-----------------------------------------------------------------------------
(* Properties of a call of generate()                                      *)

\* a call has been made
Called == last # NoCall

\* the language of the call: the caller's, or the one of the extension
run_language ==
    IF last.options.language # None THEN last.options.language
    ELSE detect_language(last.source_path)

\* the call got past the language: it has a language to resolve the rest for
Resolving == Called /\ run_language \in Language

\* the project root of the call
run_project_root == find_project_root(last.before, last.source_path, run_language)

\* no file of either backend was created, written or appended to
FilesUntouched ==
    /\ disk = last.before.disk
    /\ mem = last.before.mem
    /\ dirs = last.before.dirs
    /\ ~last.trace.wrote

\* the call failed with the error
FailedWith(err) == ~last.res.ok /\ last.res.err = err

\* C1: a call with an explicit framework that is not valid for the call's
\* language fails with InvalidCombination, whatever the cache holds and the
\* manifests say, and writes or appends to no file.
C1_InvalidExplicitFrameworkFails ==
    (/\ Resolving
     /\ last.options.framework # None
     /\ ~is_valid_combination(run_language, last.options.framework))
    => (FailedWith("InvalidCombination") /\ FilesUntouched)

\* Java + Pytest asked for, in a project whose cache holds a Java entry and
\* whose pom.xml names a framework, with create set and no dry run
C1_Witness ==
    /\ Called
    /\ last.source_path = JavaSrc
    /\ last.options.language = None
    /\ last.options.framework = Pytest
    /\ last.options.create
    /\ ~last.options.dry_run
    /\ has_cache_entry(load_cache(last.before), Proj, "Java")
    /\ detect_framework(last.before, JavaSrc, Java) # None
    /\ FailedWith("InvalidCombination")

\* the same call without dry_run, made in the world the call was made in
run_without_dry_run ==
    generate(last.before, last.source_path, [last.options EXCEPT !.dry_run = FALSE])

\* the result names the path and line the other outcome returns, or, if the
\* other call failed on its write, the path that write was for
SamePlaceAs(res, other) ==
    IF other.ok
    THEN res.test_file_path = other.test_file_path /\ res.line_number = other.line_number
    ELSE res.test_file_path = other.err_path

\* C2: a call with dry_run set leaves every file as it was, in existence and
\* in content (the target test file among them), and when it reports a
\* generation its result carries the test path and the cursor line the same
\* call without dry_run returns.
C2_DryRunWritesNothing ==
    (Called /\ last.options.dry_run)
    => /\ disk = last.before.disk
       /\ mem = last.before.mem
       /\ dirs = last.before.dirs
       /\ (last.res.ok /\ last.res.created)
          => (last.res.dry_run /\ SamePlaceAs(last.res, run_without_dry_run.res))

\* a dry run that reports the generation of a test file that does not exist,
\* where the same call without dry_run creates the file
C2_Witness ==
    /\ Called
    /\ last.options.dry_run
    /\ last.res.ok
    /\ last.res.created
    /\ last.res.test_file_path = JavaTest
    /\ ~file_exists(last.before, JavaTest)
    /\ ~file_exists(World, JavaTest)
    /\ run_without_dry_run.res.ok
    /\ file_exists(run_without_dry_run.w, JavaTest)

\* the cache entry of a project root and a language is there before the call
entry_there(root, language) ==
    /\ root.some
    /\ has_cache_entry(load_cache(last.before), root.path, fmt_debug(language))

\* the entry, where it is there
entry_of(root, language) ==
    get_cache_entry(load_cache(last.before), root.path, fmt_debug(language))

\* the entry is there and a marker file of the language is newer than it
entry_stale(root, language) ==
    /\ entry_there(root, language)
    /\ is_cache_stale(last.before, root.path, entry_of(root, language).last_used,
                      config_files_for_language(language))

\* the framework of tier 2: the one the entry names, when the entry is there,
\* is not stale and names a framework; None otherwise
tier_cache(root, language) ==
    IF entry_there(root, language) /\ ~entry_stale(root, language)
    THEN parse_framework(entry_of(root, language).framework)
    ELSE None

\* the framework of tier 3: the one the manifests name, or None
tier_detected(language) == detect_framework(last.before, last.source_path, language)

\* the first tier that yields a framework, and the framework
tier_of(explicit, cached, detected, default) ==
    IF explicit # None THEN <<"explicit", explicit>>
    ELSE IF cached # None THEN <<"cache", cached>>
    ELSE IF detected # None THEN <<"detected", detected>>
    ELSE <<"default", default>>

\* the tier and the framework of a call in a project root, for a language
tier_for(root, language) ==
    tier_of(last.options.framework, tier_cache(root, language), tier_detected(language),
            default_framework_for_language(language))

\* the framework of the call passes the validity table
framework_accepted(root, language) ==
    is_valid_combination(language, tier_for(root, language)[2])

\* the call left the cache entry of the project root and language behind,
\* when there is a project root and the cache file can be written
entry_saved(root, language) ==
    (root.some /\ last.before.cacheFile.writable)
    => /\ cacheFile.state = "ok"
       /\ has_cache_entry(cacheFile.cache, root.path, fmt_debug(language))

\* the entry the call left behind
saved_entry(root, language) == get_cache_entry(cacheFile.cache, root.path, fmt_debug(language))

\* the framework the call went on with is this one: it is the one of the
\* call's trace and the one the call stored in the cache
WentOnWith(root, language, framework) ==
    /\ last.trace.framework = framework
    /\ entry_saved(root, language)
    /\ (root.some /\ last.before.cacheFile.writable)
       => saved_entry(root, language).framework = fmt_debug(framework)

\* the call took the tier and either went on with its framework or rejected
\* it as not valid for the language
TookTier(root, language, tier) ==
    /\ last.trace.tier = tier[1]
    /\ IF is_valid_combination(language, tier[2])
       THEN WentOnWith(root, language, tier[2])
       ELSE FailedWith("InvalidCombination")

FirstTierWins(root, language) == TookTier(root, language, tier_for(root, language))

\* C3: the framework of a call is the one of the first tier that yields one:
\* the caller's; else the one of a cache entry for (project root, language)
\* that is there, is not stale and names a known framework; else the one the
\* manifests name; else the default of the language.  The call either goes on
\* with that framework or rejects it as not valid for the language.
C3_FirstTierWins == Resolving => FirstTierWins(run_project_root, run_language)

\* the cache decides although the manifest names another framework, and
\* the call stores the cached framework again
C3_Witness ==
    /\ Resolving
    /\ last.options.framework = None
    /\ tier_cache(run_project_root, run_language) = JUnit4
    /\ tier_detected(run_language) = JUnit
    /\ last.trace.tier = "cache"
    /\ WentOnWith(run_project_root, run_language, JUnit4)

\* a framework that is not valid for the language fails the call before a
\* generator is looked up and before a file is written
RejectedBeforeUse(language, tier) ==
    ~is_valid_combination(language, tier[2])
    => /\ FailedWith("InvalidCombination")
       /\ last.trace.lookup = << >>
       /\ FilesUntouched

\* C4: the template engine is only asked for a pair of the validity table: a
\* framework of the caller, the cache or the manifests that is not valid for
\* the language fails the call with InvalidCombination before a generator is
\* looked up and before a file is written, and the default of every language
\* is valid for it.
C4_OnlyValidPairsReachTemplates ==
    /\ (Called /\ last.trace.lookup # << >>)
       => is_valid_combination(last.trace.lookup[1], last.trace.lookup[2])
    /\ Resolving
       => RejectedBeforeUse(run_language, tier_for(run_project_root, run_language))
    /\ \A language \in Language :
           is_valid_combination(language, default_framework_for_language(language))

\* a fresh cache entry names a framework that is not one of the language's,
\* the caller names none and asks for the test to be created: the call is
\* rejected
C4_Witness ==
    /\ Resolving
    /\ last.options.framework = None
    /\ last.options.create
    /\ ~last.options.dry_run
    /\ run_language = Java
    /\ tier_cache(run_project_root, Java) = Pytest
    /\ FailedWith("InvalidCombination")
    /\ last.trace.lookup = << >>

\* the framework re-detection yields: the one the manifests name, or else the
\* default of the language
redetected_framework(language) ==
    IF tier_detected(language) # None THEN tier_detected(language)
    ELSE default_framework_for_language(language)

\* the structure the directories under the project root show
detected_structure(root, language) == detect_structure(last.before, root.path, language)

\* the call left the entry of its project root and language with these values
EntryRefreshedWith(root, language, framework, structure) ==
    /\ cacheFile.state = "ok"
    /\ has_cache_entry(cacheFile.cache, root.path, fmt_debug(language))
    /\ saved_entry(root, language)
       = LanguageCache(fmt_debug(framework), fmt_debug(structure),
                       current_timestamp(last.before))

\* a call that leaves framework and structure to be resolved, on a stale
\* entry, re-detects both and stores what it re-detected
StaleEntryIsNotUsed(root, language) ==
    (/\ entry_stale(root, language)
     /\ last.options.framework = None
     /\ last.options.structure = Maven)
    => /\ last.trace.framework = redetected_framework(language)
       /\ last.trace.structure = detected_structure(root, language)
       /\ EntryRefreshedWith(root, language, redetected_framework(language),
                             detected_structure(root, language))

\* C5: a stale cache entry is used by neither resolver: when a marker file
\* of the language under the project root is newer than the entry's
\* last_used, a call that leaves framework and structure to be resolved gets
\* both by re-detection, not from the entry, and the entry is refreshed with
\* the re-detected values.
C5_StaleEntryIsNotUsed == Resolving => StaleEntryIsNotUsed(run_project_root, run_language)

\* the structure a call resolves: the caller's when it is not the default;
\* else Maven when there is no project root; else the one the cache entry
\* names when there is an entry (Maven when its text names none); else the
\* one the directories show
structure_for(root, language) ==
    IF last.options.structure # Maven THEN last.options.structure
    ELSE IF ~root.some THEN Maven
    ELSE IF entry_there(root, language)
    THEN parse_structure(entry_of(root, language).structure, Maven)
    ELSE detected_structure(root, language)

\* the call resolved the structure: it is the one of the call's trace, the
\* one the call stored in the cache, and the one whose path strategy made
\* the path of the result (only SameFile returns the source path itself)
ResolvedStructure(root, language, structure) ==
    /\ last.trace.structure = structure
    /\ entry_saved(root, language)
    /\ (root.some /\ last.before.cacheFile.writable)
       => saved_entry(root, language).structure = fmt_debug(structure)
    /\ last.res.ok => ((last.res.test_file_path = last.source_path) <=> (structure = SameFile))
    /\ (last.options.structure # Maven => structure = last.options.structure)
    /\ (structure # last.options.structure => root.some)

StructureResolution(root, language) ==
    framework_accepted(root, language)
    => ResolvedStructure(root, language, structure_for(root, language))

\* C6: a structure of the caller other than the default (Maven) is the
\* resolved structure whatever the cache holds and the directories show; only
\* the default is replaced, by the cached structure or else by the structure
\* detected under the project root, and with no project root it stays Maven.
C6_StructureResolution == Resolving => StructureResolution(run_project_root, run_language)

\* the caller asks for Gradle where the cache entry names SameFile
C6_Witness ==
    /\ Resolving
    /\ last.options.structure = Gradle
    /\ entry_there(run_project_root, run_language)
    /\ entry_of(run_project_root, run_language).structure = "SameFile"
    /\ last.trace.structure = Gradle
    /\ last.res.ok
    /\ last.res.test_file_path = JavaTest

\* C9: under both path strategies resolve_test_path fails with FileNotFound
\* when the source file does not exist; the check comes before the rewriting
\* of the path, so that a missing source whose path has no main-source
\* segment yields FileNotFound too, and a call of generate() on a missing
\* source writes no file.
C9_MissingSourceIsFileNotFound ==
    (Called /\ ~file_exists(last.before, last.source_path))
    => /\ \A structure \in StructureType :
              resolve_test_path(last.before, structure, last.source_path)
              = ErrPath("FileNotFound", last.source_path)
       /\ FilesUntouched
       /\ ~last.res.ok
       /\ (Resolving /\ framework_accepted(run_project_root, run_language))
          => (FailedWith("FileNotFound") /\ last.res.err_path = last.source_path)

\* a missing source whose path has no main-source segment, under the
\* directory-substitution strategy
C9_Witness ==
    /\ Called
    /\ last.source_path = RustSrc
    /\ ~file_exists(last.before, RustSrc)
    /\ ~transform_path(RustSrc).ok
    /\ last.trace.structure = Gradle
    /\ last.options.create
    /\ ~last.options.dry_run
    /\ FailedWith("FileNotFound")

\* C10: when the resolved test path does not exist and the caller's create
\* flag is not set, generate() fails with FileNotFound and neither creates nor
\* changes a file.
C10_NoCreateIsFileNotFound ==
    (/\ Called
     /\ last.trace.test_file_path # NoPath
     /\ ~file_exists(last.before, last.trace.test_file_path)
     /\ ~last.options.create)
    => /\ FailedWith("FileNotFound")
       /\ last.res.err_path = last.trace.test_file_path
       /\ FilesUntouched

\* the test file of an existing Java source is missing and create is not set
C10_Witness ==
    /\ Called
    /\ ~last.options.create
    /\ ~last.options.dry_run
    /\ file_exists(last.before, JavaSrc)
    /\ last.trace.test_file_path = JavaTest
    /\ ~file_exists(last.before, JavaTest)
    /\ FailedWith("FileNotFound")
    /\ ~file_exists(World, JavaTest)

-----------------------------------------------------------------------------
(* is_cache_stale on its own: the marker files of a project root at every  *)
(* modification time of a range, against every last_used of a range        *)

\* the latest modification time of a marker file, in ticks
MaxMtime == 5

\* how many ticks before the epoch the earliest modification time lies
PreEpochTicks == 1

\* the latest last_used of an entry, in seconds
MaxLastUsed == 2

MtimeChoices == (0 - PreEpochTicks)..MaxMtime

\* a marker file is absent, or there with one of the modification times
MarkerChoices(name) ==
    {{}} \cup {{<<join(Proj, name), File(<< >>, mtime)>>} : mtime \in MtimeChoices}

\* the lists of marker names is_cache_stale is called with
ConfigFilesChoices == {config_files_for_language(Java), <<BUILD_GRADLE>>, << >>}

InitStale ==
    \E pom \in MarkerChoices(POM_XML), gradle \in MarkerChoices(BUILD_GRADLE),
       last_used \in 0..MaxLastUsed :
        /\ backend = Os
        /\ disk = MapOf(pom \cup gradle)
        /\ dirs = Ancestors(join(Proj, POM_XML))
        /\ readonly = FALSE
        /\ mem = EmptyMap
        /\ cacheFile = CacheFileOk(CacheOf("Java", LanguageCache("JUnit", "Maven", last_used)))
        /\ clock = StartClock
        /\ last = NoCall

\* one call of is_cache_stale for the entry of the cache file
IsCacheStale ==
    /\ last = NoCall
    /\ \E config_files \in ConfigFilesChoices :
           last' = [config_files |-> config_files,
                    res |-> is_cache_stale(World, Proj,
                                           get_cache_entry(cacheFile.cache, Proj, "Java").last_used,
                                           config_files),
                    op |-> "is_cache_stale"]
    /\ UNCHANGED <<backend, disk, dirs, readonly, mem, cacheFile, clock>>

NextStale == IsCacheStale

SpecStale == InitStale /\ [][NextStale]_vars

\* the marker file of the name is under the project root and its modification
\* time, in whole seconds, is greater than last_used
NewerMarker(name, last_used) ==
    /\ join(Proj, name) \in DOMAIN disk
    /\ disk[join(Proj, name)].mtime \div TicksPerSec > last_used

\* C7: is_cache_stale(root, last_used, markers) is true if and only if one of
\* the marker files is there under the root with a modification time, in
\* whole seconds, strictly greater than last_used; it is false when every
\* marker is absent or not newer.
C7_StaleIffNewerMarker ==
    (last.op = "is_cache_stale")
    => (last.res <=> \E i \in 1..Len(last.config_files) :
                         NewerMarker(last.config_files[i],
                                     get_cache_entry(cacheFile.cache, Proj, "Java").last_used))

\* pom.xml was modified within the very second the entry was last used, and
\* no other marker is there: the entry is not stale
C7_Witness ==
    /\ last.op = "is_cache_stale"
    /\ last.config_files = config_files_for_language(Java)
    /\ DOMAIN disk = {join(Proj, POM_XML)}
    /\ disk[join(Proj, POM_XML)].mtime >= 0
    /\ as_secs(disk[join(Proj, POM_XML)].mtime)
       = get_cache_entry(cacheFile.cache, Proj, "Java").last_used
    /\ ~last.res

-----------------------------------------------------------------------------
(* MavenResolver::transform_path on its own: every path of a few           *)
(* components out of a small set, relative and absolute                    *)

\* the most components of a path
MaxSegs == 3

\* the components: the two of the main-source directory, two that hold them
\* as a part of their text ("mysrc", "mainframe"), a file name with an
\* extension, one without, and the parent directory
PathSegs ==
    {<<"src">>, <<"main">>, <<"my", "src">>, <<"main", "frame">>, <<"Foo", Dot, "java">>,
     <<"Foo">>, ParentDir}

SegSeqs == UNION {[1..n -> PathSegs] : n \in 1..MaxSegs}

PathChoices == {JoinSegs(segs) : segs \in SegSeqs} \cup {Root \o JoinSegs(segs) : segs \in SegSeqs}

InitPath ==
    \E source_path \in PathChoices :
        /\ backend = Memory
        /\ disk = EmptyMap
        /\ dirs = {Root}
        /\ readonly = FALSE
        /\ mem = EmptyMap
        /\ cacheFile = CacheFileAbsent
        /\ clock = StartClock
        /\ last = [source_path |-> source_path, op |-> "path"]

\* one call of transform_path
TransformPath ==
    /\ last.op = "path"
    /\ last' = [source_path |-> last.source_path, res |-> transform_path(last.source_path),
                op |-> "transform_path"]
    /\ UNCHANGED <<backend, disk, dirs, readonly, mem, cacheFile, clock>>

NextPath == TransformPath

SpecPath == InitPath /\ [][NextPath]_vars

\* the components of the cleaned path
segments_of(path) == Split(clean(path), Sep)

\* the path has a main-source directory: a component src followed by a
\* component main
has_main_segment(segs) ==
    \E i \in 1..(Len(segs) - 1) : segs[i] = <<"src">> /\ segs[i + 1] = <<"main">>

\* the components with test for main in every main-source directory
with_test_segment(segs) ==
    [i \in 1..Len(segs) |->
        IF i > 1 /\ segs[i - 1] = <<"src">> /\ segs[i] = <<"main">> THEN <<"test">> ELSE segs[i]]

\* the components with Test before the extension of the last one
with_test_suffix(segs) ==
    [i \in 1..Len(segs) |-> IF i = Len(segs) THEN test_file_name(segs[i]) ELSE segs[i]]

\* C8: transform_path of a path that has a main-source directory (src/main)
\* is the path with that directory replaced by the test-source directory
\* (src/test) and with Test put before the extension of the file name, every
\* other component kept; of a path that has none it is an InvalidPath error.
C8_SegmentSubstitution ==
    (last.op = "transform_path")
    => IF has_main_segment(segments_of(last.source_path))
       THEN last.res
            = OkPath(JoinSegs(with_test_suffix(with_test_segment(segments_of(last.source_path)))))
       ELSE ~last.res.ok /\ last.res.err = "InvalidPath"

-----------------------------------------------------------------------------
(* Properties of the existing-file state machine                           *)

\* the call resolved a test path
Located == Resolving /\ last.trace.test_file_path # NoPath

\* the file at the resolved test path was there before the call
test_was_there == file_exists(last.before, last.trace.test_file_path)

\* the content of that file held the anchor marker of a test module
anchor_was_there ==
    /\ read_file_ok(last.before, last.trace.test_file_path)
    /\ Contains(read_file(last.before, last.trace.test_file_path), CFG_TEST)

\* the call reports the test at the resolved path as found, not created
FoundThere ==
    /\ last.res.ok
    /\ ~last.res.created
    /\ ~last.res.dry_run
    /\ last.res.test_file_path = last.trace.test_file_path

-----------------------------------------------------------------------------
(* Properties of the cursor line of a same-file generation                 *)

\* the line ends among the first n atoms of a text
RECURSIVE count_line_ends(_, _)
count_line_ends(c, n) ==
    IF n = 0 THEN 0
    ELSE (IF c[n] = NL THEN 1 ELSE 0) + count_line_ends(c, n - 1)

\* the number of lines of a text: a last line need not end with a line end
line_count(c) ==
    count_line_ends(c, Len(c)) + (IF c # << >> /\ c[Len(c)] # NL THEN 1 ELSE 0)

\* the 1-based line of the block on which the anchor (// TODO) starts
anchor_offset(block) ==
    1 + count_line_ends(block,
            CHOOSE i \in 1..Len(block) :
                /\ OccursAt(block, TODO_COMMENT, i)
                /\ \A j \in 1..(i - 1) : ~OccursAt(block, TODO_COMMENT, j))

\* the content the file at the path holds, readable or not
stored_content(w, p) ==
    IF w.backend = Os THEN w.disk[abspath(p)].content ELSE w.mem[normalize_path(p)]

\* the call generated (or previewed) a test module under SameFile
GeneratedInSameFile ==
    /\ Located
    /\ last.trace.structure = SameFile
    /\ last.res.ok
    /\ last.res.created

\* the block the call generated
generated_block ==
    generated_content(last.before, last.source_path, run_language, last.trace.framework)

\* the lines of the file before the append plus the anchor's line in the block
line_after_existing ==
    line_count(stored_content(last.before, last.trace.test_file_path))
    + anchor_offset(generated_block)

\* C12 (as stated): whenever a call generates under SameFile, the reported
\* cursor line is the number of lines of the file before the append plus the
\* 1-based line of the anchor within the generated block.
C12_CursorLineAfterExisting ==
    GeneratedInSameFile => last.res.line_number = line_after_existing

\* C12 (amended): that holds when the file can be read before the append; when
\* it cannot be read, the reported cursor line is 1.
C12_CursorLineAfterReadable ==
    GeneratedInSameFile
    => last.res.line_number =
           (IF read_file_ok(last.before, last.trace.test_file_path)
            THEN line_after_existing ELSE 1)

\* a Rust source of one line without a test module gets the module appended:
\* the anchor is on line 7 of the block, the cursor on line 8
C12_Witness ==
    /\ GeneratedInSameFile
    /\ ~last.options.dry_run
    /\ last.source_path = RustSrc
    /\ read_file_ok(last.before, RustSrc)
    /\ line_count(stored_content(last.before, RustSrc)) = 1
    /\ anchor_offset(generated_block) = 7
    /\ last.res.line_number = 8
    /\ stored_content(World, RustSrc) # stored_content(last.before, RustSrc)

-----------------------------------------------------------------------------
(* Sequences of update_cache_entry calls on one ProjectCache               *)

\* the calls of one behaviour
MaxUpdates == 2

OtherProj == <<Sep, "other">>

CacheRoots == {Proj, OtherProj}

CacheLanguages == {"Java", "Rust"}

CacheFrameworks == {JUnit, Native}

CacheStructures == {Maven, SameFile}

\* the cache the calls start from: empty, one entry, all four entries
CacheChoices ==
    {EmptyMap,
     CacheOf("Java", LanguageCache("JUnit4", "Gradle", 1)),
     [root \in CacheRoots |-> [l \in CacheLanguages |-> LanguageCache("TestNG", "Flat", 0)]]}

InitCache ==
    \E cache \in CacheChoices :
        /\ backend = Os
        /\ disk = EmptyMap
        /\ dirs = {}
        /\ readonly = FALSE
        /\ mem = EmptyMap
        /\ cacheFile = CacheFileAbsent
        /\ clock = StartClock
        /\ last = [cache |-> cache, op |-> "ProjectCache::new", calls |-> 0]

\* one call of update_cache_entry on the cache
UpdateCacheEntry ==
    /\ last.calls < MaxUpdates
    /\ \E project_root \in CacheRoots, language_str \in CacheLanguages,
          framework \in CacheFrameworks, structure \in CacheStructures :
           last' = [framework |-> framework,
                    cache |-> update_cache_entry(World, last.cache, project_root,
                                                 language_str, framework, structure),
                    structure |-> structure,
                    project_root |-> project_root,
                    language_str |-> language_str,
                    op |-> "update_cache_entry",
                    before |-> last.cache,
                    calls |-> last.calls + 1,
                    called_at |-> clock]
    /\ UNCHANGED <<backend, disk, dirs, readonly, mem, cacheFile, clock>>

\* a second passes between two calls
CacheTick ==
    /\ clock < StartClock + MaxTicks * TicksPerSec
    /\ clock' = clock + TicksPerSec
    /\ UNCHANGED <<backend, disk, dirs, readonly, mem, cacheFile, last>>

NextCache == UpdateCacheEntry \/ CacheTick

SpecCache == InitCache /\ [][NextCache]_vars

\* the (root, language) pairs a cache holds an entry for
entry_keys(cache) == {<<root, l>> \in (DOMAIN cache) \X CacheLanguages : l \in DOMAIN cache[root]}

Updated == last.op = "update_cache_entry"

\* the entry the last call built, with the whole seconds of the time of the
\* call: nothing of it comes from the entry before
built_entry ==
    LanguageCache(fmt_debug(last.framework), fmt_debug(last.structure),
                  last.called_at \div TicksPerSec)

\* C13: after every call of update_cache_entry the cache holds one entry for
\* the call's (root, language), which is the call's framework, structure and
\* time as a whole; the keys of the cache are those it had and the call's
\* key, and the entry of every other key is the one it was.
C13_UpsertReplacesOwnEntryOnly ==
    Updated
    => /\ has_cache_entry(last.cache, last.project_root, last.language_str)
       /\ get_cache_entry(last.cache, last.project_root, last.language_str) = built_entry
       /\ entry_keys(last.cache)
              = entry_keys(last.before) \cup {<<last.project_root, last.language_str>>}
       /\ \A key \in entry_keys(last.before) :
              key # <<last.project_root, last.language_str>>
              => get_cache_entry(last.cache, key[1], key[2])
                     = get_cache_entry(last.before, key[1], key[2])

\* the second call replaces the entry of /proj and Java, which differs from the
\* new one in each field, while /proj holds an entry for Rust and /other does
\* for Java
C13_Witness ==
    /\ Updated
    /\ last.calls = 2
    /\ last.project_root = Proj
    /\ last.language_str = "Java"
    /\ has_cache_entry(last.before, Proj, "Java")
    /\ has_cache_entry(last.before, Proj, "Rust")
    /\ has_cache_entry(last.before, OtherProj, "Java")
    /\ get_cache_entry(last.before, Proj, "Java").framework
           # get_cache_entry(last.cache, Proj, "Java").framework
    /\ get_cache_entry(last.before, Proj, "Java").structure
           # get_cache_entry(last.cache, Proj, "Java").structure
    /\ get_cache_entry(last.before, Proj, "Java").last_used
           # get_cache_entry(last.cache, Proj, "Java").last_used
    /\ Cardinality(entry_keys(last.cache)) = 4

-----------------------------------------------------------------------------
(* Properties of the cache file's failures                                 *)

\* the cache files that fail: no file; a file that cannot be parsed, which can
\* or cannot be replaced; a file with an entry that can be read and not
\* replaced; and, to compare with, one that can
FailingCacheFileChoices ==
    {CacheFileAbsent,
     [state |-> "corrupt", cache |-> EmptyMap, writable |-> FALSE],
     [state |-> "corrupt", cache |-> EmptyMap, writable |-> TRUE],
     [state |-> "ok", cache |-> CacheOf("Java", LanguageCache("JUnit4", "SameFile", 1)),
      writable |-> FALSE],
     CacheFileOk(CacheOf("Java", LanguageCache("JUnit4", "SameFile", 1)))}

InitCacheFailure ==
    \E jt \in JavaTestChoices, mf \in {{}, PomThere}, cf \in FailingCacheFileChoices :
        InitWorld(Os, FALSE, JavaSrcThere \cup RustSrcPlain \cup jt, mf \cup CargoThere, cf, {})

\* the calls of generate() in the worlds whose cache file fails
SpecCacheFailure == InitCacheFailure /\ [][Next]_vars

\* the same call in the world the call was made in, but for its cache file
run_with_cache_file(cf) ==
    generate([last.before EXCEPT !.cacheFile = cf], last.source_path, last.options)

\* the other run ends as the call did: the same result (outcome, test path,
\* cursor line or error) and the same files of both backends
SameOutcomeAs(other) ==
    /\ other.res = last.res
    /\ other.w.disk = disk
    /\ other.w.mem = mem
    /\ other.w.dirs = dirs

\* the cache file of the call could not be loaded
LoadFailed == Called /\ last.before.cacheFile.state # "ok"

\* the cache file of the call could not be written
SaveFailed == Called /\ ~last.before.cacheFile.writable

-----------------------------------------------------------------------------
(* find_project_root on trees with markers at several depths               *)

SubProj == <<Sep, "proj", Sep, "sub">>

SubSrcDir == <<Sep, "proj", Sep, "sub", Sep, "src">>

SubSrc == <<Sep, "proj", Sep, "sub", Sep, "src", Sep, "Foo", Dot, "java">>

RelSrc == <<"src", Sep, "Foo", Dot, "java">>

\* the directories that may hold a marker: the file-system root, the outer
\* and the nested project, the directory of the source, the working directory
MarkerDirs == <<Root, Proj, SubProj, SubSrcDir, Cwd>>

\* what a directory holds: nothing, or one marker
MarkerNames == {<< >>, POM_XML, BUILD_GRADLE_KTS, CARGO_TOML}

\* the start paths: a source file (there or not), its directory, the nested
\* project's directory, the root, and a relative path under the working
\* directory
StartPaths == {SubSrc, SubSrcDir, SubProj, Root, RelSrc}

RootLanguages == {Java, Rust, Python}

InitRoot ==
    \E names \in [1..Len(MarkerDirs) -> MarkerNames], there \in BOOLEAN :
        /\ backend = Os
        /\ disk = MapOf({<<join(MarkerDirs[i], names[i]), File(<< >>, 0)>> :
                            i \in {j \in 1..Len(MarkerDirs) : names[j] # << >>}}
                        \cup (IF there THEN {<<SubSrc, File(JavaWithPackage, 0)>>} ELSE {}))
        /\ dirs = Ancestors(SubSrc) \cup Ancestors(join(Cwd, POM_XML))
        /\ readonly = FALSE
        /\ mem = EmptyMap
        /\ cacheFile = CacheFileAbsent
        /\ clock = StartClock
        /\ last = NoCall

\* one call of find_project_root
FindProjectRoot ==
    /\ last = NoCall
    /\ \E start_path \in StartPaths, language \in RootLanguages :
           last' = [language |-> language,
                    start_path |-> start_path,
                    res |-> find_project_root(World, start_path, language),
                    op |-> "find_project_root"]
    /\ UNCHANGED <<backend, disk, dirs, readonly, mem, cacheFile, clock>>

NextRoot == FindProjectRoot

SpecRoot == InitRoot /\ [][NextRoot]_vars

RootSought == last.op = "find_project_root"

\* the directory the start path stands for: itself, or the one it is in
start_directory(p) == IF abspath(p) \in dirs THEN abspath(p) ELSE parent(abspath(p))

\* the start directory and the directories above it
start_ancestors(p) == Ancestors(start_directory(p)) \cup {start_directory(p)}

\* the directory holds a marker file of the language
holds_marker(dir, language) ==
    \E i \in 1..Len(config_files_for_language(language)) :
        join(dir, config_files_for_language(language)[i]) \in DOMAIN disk

\* the start directory or ancestor directories that hold a marker
marked_ancestors(p, language) == {dir \in start_ancestors(p) : holds_marker(dir, language)}

\* C15: find_project_root returns the closest of the start directory and its
\* ancestors that holds a marker file of the language (the one below which
\* every other such directory lies), also when several do, and none when none
\* of them up to the file-system root holds one.
C15_ClosestMarkedAncestor ==
    RootSought
    => IF marked_ancestors(last.start_path, last.language) = {}
       THEN ~last.res.some
       ELSE /\ last.res.some
            /\ last.res.path \in marked_ancestors(last.start_path, last.language)
            /\ \A dir \in marked_ancestors(last.start_path, last.language) :
                   Len(dir) <= Len(last.res.path)

\* the nested project and the outer one both hold a Java marker, and so does
\* the file-system root: the nested one is returned for a source below it
C15_Witness ==
    /\ RootSought
    /\ last.start_path = SubSrc
    /\ last.language = Java
    /\ {Root, Proj, SubProj} \subseteq marked_ancestors(SubSrc, Java)
    /\ ~holds_marker(SubSrcDir, Java)
    /\ last.res = SomePath(SubProj)

\* no directory from the working directory up holds a Python marker: none
C15_WitnessNone ==
    /\ RootSought
    /\ last.start_path = RelSrc
    /\ last.language = Python
    /\ holds_marker(Cwd, Java)
    /\ ~last.res.some

-----------------------------------------------------------------------------
(* extract_class_name on the names of a source file and of its test file   *)

\* the atoms of the longest stem
MaxStemAtoms == 3

StemAtoms == {"Foo", "Test", Dot, "java"}

\* the stems X of the source file names X.java
StemChoices == UNION {[1..n -> StemAtoms] : n \in 1..MaxStemAtoms}

InitClassName ==
    /\ backend = Os
    /\ disk = EmptyMap
    /\ dirs = {}
    /\ readonly = FALSE
    /\ mem = EmptyMap
    /\ cacheFile = CacheFileAbsent
    /\ clock = StartClock
    /\ \E stem \in StemChoices : last = [op |-> "stem", stem |-> stem]

\* extract_class_name on X.java and on XTest.java
ExtractClassName ==
    /\ last.op = "stem"
    /\ last' = [op |-> "extract_class_name",
                stem |-> last.stem,
                of_source |-> extract_class_name(last.stem \o DOT_JAVA),
                of_test |-> extract_class_name(last.stem \o TEST_JAVA)]
    /\ UNCHANGED <<backend, disk, dirs, readonly, mem, cacheFile, clock>>

NextClassName == ExtractClassName

SpecClassName == InitClassName /\ [][NextClassName]_vars

\* C16: for every source file name X.java, extract_class_name of the test
\* file name XTest.java and extract_class_name of X.java are both the
\* identifier X.
C16_ClassNameRoundTrip ==
    last.op = "extract_class_name"
    => /\ last.of_source = SomeText(last.stem)
       /\ last.of_test = SomeText(last.stem)

\* the round trip on the stems that neither end with Test nor hold .java,
\* where it holds
C16_PlainStemRoundTrip ==
    (/\ last.op = "extract_class_name"
     /\ last.stem[Len(last.stem)] # "Test"
     /\ ~Contains(last.stem \o <<Dot>>, DOT_JAVA \o <<Dot>>)
     /\ ~Contains(last.stem \o <<Dot>>, TEST_JAVA \o <<Dot>>)
     /\ ~EndsWith(last.stem, DOT_JAVA))
    => /\ last.of_source = SomeText(last.stem)
       /\ last.of_test = SomeText(last.stem)

-----------------------------------------------------------------------------
(* The functions of config/framework.rs on every pair                      *)

InitCombination ==
    /\ backend = Os
    /\ disk = EmptyMap
    /\ dirs = {}
    /\ readonly = FALSE
    /\ mem = EmptyMap
    /\ cacheFile = CacheFileAbsent
    /\ clock = StartClock
    /\ \E language \in Language, framework \in Framework :
           last = [language |-> language, framework |-> framework, op |-> "pair"]

\* the result of one of the three functions on the pair
Answer(op, res) ==
    /\ last.op = "pair"
    /\ last' = [language |-> last.language, framework |-> last.framework,
                res |-> res, op |-> op]
    /\ UNCHANGED <<backend, disk, dirs, readonly, mem, cacheFile, clock>>

IsValidCombination ==
    Answer("is_valid_combination", is_valid_combination(last.language, last.framework))

ValidateCombination ==
    Answer("validate_combination", validate_combination(last.language, last.framework))

SupportedFrameworks ==
    Answer("supported_frameworks_for_language",
           supported_frameworks_for_language(last.language))

NextCombination == IsValidCombination \/ ValidateCombination \/ SupportedFrameworks

SpecCombination == InitCombination /\ [][NextCombination]_vars

\* the validity table
ValidityTable ==
    {<<Java, JUnit>>, <<Java, JUnit4>>, <<Java, TestNG>>, <<Rust, Native>>,
     <<Python, Pytest>>, <<JavaScript, Jest>>, <<TypeScript, Jest>>}

\* C17: on every (language, framework) pair is_valid_combination is true
\* exactly for the pairs of the validity table, validate_combination is an
\* InvalidCombination error exactly for the other pairs, and
\* supported_frameworks_for_language lists exactly the frameworks the table
\* pairs with the language, each once.
C17_ValidityTable ==
    /\ last.op = "is_valid_combination"
       => (last.res <=> <<last.language, last.framework>> \in ValidityTable)
    /\ last.op = "validate_combination"
       => /\ last.res \in {"Ok", "InvalidCombination"}
          /\ last.res = "InvalidCombination"
             <=> <<last.language, last.framework>> \notin ValidityTable
    /\ last.op = "supported_frameworks_for_language"
       => /\ {last.res[i] : i \in 1..Len(last.res)}
                 = {framework \in Framework : <<last.language, framework>> \in ValidityTable}
          /\ \A i, j \in 1..Len(last.res) : last.res[i] = last.res[j] => i = j

\* Java with TestNG is valid, and TestNG is among Java's frameworks
C17_Witness ==
    /\ last.language = Java
    /\ last.framework = TestNG
    /\ \/ last.op = "is_valid_combination" /\ last.res = TRUE
       \/ last.op = "validate_combination" /\ last.res = "Ok"

-----------------------------------------------------------------------------
(* detect_language on paths of every kind of extension                     *)

\* where the file is: nowhere (a bare name), in a directory, in a directory
\* whose own name ends like a source file
DirChoices == {<< >>, Proj, <<Sep, "proj", Dot, "rs">>}

\* the file name before its last dot
NameStems == {<<"Foo">>, << >>, <<"Foo", Dot, "py">>}

\* the text after the last dot of the file name
AfterDot(text) == [text |-> text, dotted |-> TRUE]

\* a file name without a dot
NoDot == [text |-> << >>, dotted |-> FALSE]

\* the five known extensions, one in capitals, an unknown one, the empty one
\* (a name that ends with a dot), and none
ExtChoices ==
    {NoDot} \cup {AfterDot(text) : text \in {<<"java">>, <<"rs">>, <<"py">>, <<"js">>, <<"ts">>,
                                            <<"Java">>, <<"txt">>, << >>}}

\* the path of the pieces
path_of(dir, stem, ext) ==
    join(dir, IF ext.dotted THEN stem \o <<Dot>> \o ext.text ELSE stem)

InitLanguage ==
    /\ backend = Os
    /\ disk = EmptyMap
    /\ dirs = {Root}
    /\ readonly = FALSE
    /\ mem = EmptyMap
    /\ cacheFile = CacheFileAbsent
    /\ clock = StartClock
    /\ \E dir \in DirChoices, stem \in NameStems, ext \in ExtChoices :
           /\ (~ext.dotted => stem = <<"Foo">>)
           /\ (ext.text = << >> => stem # << >>)
           /\ last = [source_path |-> path_of(dir, stem, ext), op |-> "path",
                      stem |-> stem, after_dot |-> ext]

\* one call of detect_language on the path
DetectLanguage ==
    /\ last.op = "path"
    /\ last' = [source_path |-> last.source_path,
                res |-> detect_language(last.source_path),
                op |-> "detect_language", stem |-> last.stem, after_dot |-> last.after_dot]
    /\ UNCHANGED <<backend, disk, dirs, readonly, mem, cacheFile, clock>>

\* one call of generate() on the path, with or without a language of the
\* caller
GenerateFor ==
    /\ last.op = "path"
    /\ \E language \in Language \cup {None} :
           With(GeneratorOptions(Maven, language, None, TRUE, FALSE), LAMBDA options :
               With(generate(World, last.source_path, options), LAMBDA out :
                   last' = [source_path |-> last.source_path, res |-> out.res,
                            trace |-> out.trace, options |-> options, op |-> "generate",
                            stem |-> last.stem, after_dot |-> last.after_dot]))
    /\ UNCHANGED <<backend, disk, dirs, readonly, mem, cacheFile, clock>>

NextLanguage == DetectLanguage \/ GenerateFor

SpecLanguage == InitLanguage /\ [][NextLanguage]_vars

\* the language of each known extension
ExtensionTable ==
    {<<(<<"java">>), Java>>, <<(<<"rs">>), Rust>>, <<(<<"py">>), Python>>,
     <<(<<"js">>), JavaScript>>, <<(<<"ts">>), TypeScript>>}

\* the file name of the path has an extension: a dot that does not start it
ext_there == last.after_dot.dotted /\ last.stem # << >>

\* what the claim says of a path with that extension
classified ==
    IF ~ext_there THEN "InvalidSourceFile"
    ELSE IF \E pr \in ExtensionTable : pr[1] = last.after_dot.text
    THEN (CHOOSE pr \in ExtensionTable : pr[1] = last.after_dot.text)[2]
    ELSE "UnsupportedLanguage"

ClassificationErrors == {"InvalidSourceFile", "UnsupportedLanguage"}

\* C18: detect_language yields the language of the table for each of the
\* extensions java, rs, py, js and ts, UnsupportedLanguage for every other
\* extension and InvalidSourceFile for a path without an extension, whatever
\* the directory and the rest of the name; a call of generate() with a
\* language of the caller goes on with that language whatever the extension
\* and fails with neither of the two errors, and one without goes on with
\* the language of the extension or fails with its error.
C18_LanguageByExtensionOnly ==
    /\ last.op = "detect_language" => last.res = classified
    /\ (last.op = "generate" /\ last.options.language # None)
       => /\ last.trace.language = last.options.language
          /\ ~(last.res.ok = FALSE /\ last.res.err \in ClassificationErrors)
    /\ (last.op = "generate" /\ last.options.language = None)
       => IF classified \in Language THEN last.trace.language = classified
          ELSE ~last.res.ok /\ last.res.err = classified

\* Foo.py.rs in the directory /proj.rs is Rust
C18_Witness ==
    /\ last.op = "detect_language"
    /\ last.source_path = <<Sep, "proj", Dot, "rs", Sep, "Foo", Dot, "py", Dot, "rs">>
    /\ last.res = Rust

\* with Java as the caller's language a path without an extension goes on as
\* Java, up to the source file that is not there
C18_WitnessExplicit ==
    /\ last.op = "generate"
    /\ last.source_path = <<Sep, "proj", Dot, "rs", Sep, "Foo">>
    /\ last.options.language = Java
    /\ last.trace.language = Java
    /\ last.res.err = "FileNotFound"

-----------------------------------------------------------------------------
(* The template registry on every pair                                     *)

InitTemplates ==
    \E b \in {Os, Memory}, jt \in JavaTestChoices :
        InitWorld(b, FALSE, JavaSrcThere \cup RustSrcPlain \cup jt, PomThere \cup CargoThere,
                  CacheFileAbsent, {})

\* one call of get_generator on the registry of TemplateRegistry::new
GetGenerator ==
    /\ last = NoCall
    /\ \E language \in Language, framework \in Framework :
           last' = [language |-> language, framework |-> framework,
                    res |-> get_generator_ok(language, framework), op |-> "get_generator"]
    /\ UNCHANGED <<backend, disk, dirs, readonly, mem, cacheFile, clock>>

\* one call of generate() that asks for the creation of the test, with every
\* language and framework of the caller
GenerateWith ==
    /\ last = NoCall
    /\ \E source_path \in SourcePaths, structure \in {Maven, SameFile},
          language \in Language \cup {None}, framework \in Framework \cup {None},
          dry_run \in BOOLEAN :
           Run(source_path, GeneratorOptions(structure, language, framework, TRUE, dry_run))

NextTemplates == GetGenerator \/ GenerateWith

SpecTemplates == InitTemplates /\ [][NextTemplates]_vars

\* the pairs TemplateRegistry::new registers
RegisteredPairs == {<<Java, JUnit>>, <<Java, JUnit4>>, <<Rust, Native>>}

\* the call got to the template lookup, with the pair
LookedUp(pair) == last.op = "generate" /\ last.trace.lookup = pair

\* C19: get_generator is Ok exactly for Java/JUnit, Java/JUnit4 and
\* Rust/Native; a call of generate() that gets to the template lookup with
\* any other pair fails with InvalidCombination and creates, writes and
\* appends to no file, and one that gets there with a registered pair does
\* not fail with InvalidCombination.
C19_UnregisteredPairFails ==
    /\ last.op = "get_generator"
       => (last.res <=> <<last.language, last.framework>> \in RegisteredPairs)
    /\ \A pair \in Language \X Framework :
           LookedUp(pair)
           => IF pair \in RegisteredPairs THEN ~FailedWith("InvalidCombination")
              ELSE FailedWith("InvalidCombination") /\ FilesUntouched

\* Java with TestNG, which the validity table accepts, gets to the lookup for
\* a test that is missing and fails there
C19_Witness ==
    /\ LookedUp(<<Java, TestNG>>)
    /\ is_valid_combination(Java, TestNG)
    /\ last.options.create
    /\ ~last.options.dry_run
    /\ last.trace.test_file_path = JavaTest
    /\ FailedWith("InvalidCombination")
    /\ ~file_exists(World, JavaTest)

\* Python with Pytest on the Rust source under SameFile
C19_WitnessPytest ==
    /\ LookedUp(<<Python, Pytest>>)
    /\ last.trace.structure = SameFile
    /\ FailedWith("InvalidCombination")
    /\ FilesUntouched

-----------------------------------------------------------------------------
(* detect_framework on projects with several manifests                     *)

\* the contents of a pom.xml: no signature, one of each framework, and
\* several at once
PomContents ==
    {<<"<dependencies/>">>,
     PomJupiter,
     PomJUnit4,
     <<"<artifactId>", "testng", "</artifactId>">>,
     <<"org.", "testng", NL, "junit", ":", "junit", NL, "org.", "junit", ".jupiter">>,
     <<"<artifactId>", "testng", "</artifactId>", NL, "<artifactId>", "junit", "</artifactId>">>}

\* the contents of a build.gradle
GradleContents ==
    {<<"plugins {}">>,
     GradleJUnit4,
     <<"junit", ":", "junit", NL, "org.", "junit", ".jupiter">>,
     <<"org.", "testng", NL, "junit", ":", "junit">>}

\* a manifest of the name in the directory: none, one of each content, or one
\* that cannot be read
ManifestsOf(dir, name, contents) ==
    {{}} \cup {{<<join(dir, name), File(content, 0)>>} : content \in contents}
         \cup {{<<join(dir, name), [File(<< >>, 0) EXCEPT !.readable = FALSE]>>}}

\* what lies between the source and /proj, in /proj/sub: nothing, the
\* manifest of another language, or a pom.xml of its own
BetweenChoices ==
    {{}, {<<join(SubProj, PACKAGE_JSON), File(<<"jest">>, 0)>>},
     {<<join(SubProj, CARGO_TOML), File(CargoPlain, 0)>>},
     {<<join(SubProj, POM_XML), File(PomJUnit4, 0)>>}}

InitDetect ==
    \E pom \in ManifestsOf(Proj, POM_XML, PomContents),
       gradle \in ManifestsOf(Proj, BUILD_GRADLE, GradleContents),
       cargo \in ManifestsOf(Proj, CARGO_TOML, {CargoPlain}),
       between \in BetweenChoices :
        /\ backend = Os
        /\ disk = MapOf(pom \cup gradle \cup cargo \cup between
                        \cup {<<SubSrc, File(JavaWithPackage, 0)>>})
        /\ dirs = Ancestors(SubSrc)
        /\ readonly = FALSE
        /\ mem = EmptyMap
        /\ cacheFile = CacheFileAbsent
        /\ clock = StartClock
        /\ last = NoCall

\* one call of detect_framework for the source
DetectFramework ==
    /\ last = NoCall
    /\ \E language \in RootLanguages :
           last' = [language |-> language,
                    start_path |-> SubSrc,
                    res |-> detect_framework(World, SubSrc, language),
                    op |-> "detect_framework"]
    /\ UNCHANGED <<backend, disk, dirs, readonly, mem, cacheFile, clock>>

NextDetect == DetectFramework

SpecDetect == InitDetect /\ [][NextDetect]_vars

Detected == last.op = "detect_framework"

\* the manifests the Java detection reads, in its order
JavaManifests == <<POM_XML, BUILD_GRADLE, BUILD_GRADLE_KTS>>

\* the directory holds one of the names
holds_one_of(dir, names) == \E i \in 1..Len(names) : join(dir, names[i]) \in DOMAIN disk

\* the nearest of the start directory and its ancestors that holds one of the
\* names, NoPath when none does
nearest_with(p, names) ==
    IF \E dir \in start_ancestors(p) : holds_one_of(dir, names)
    THEN CHOOSE dir \in start_ancestors(p) :
             /\ holds_one_of(dir, names)
             /\ \A other \in start_ancestors(p) :
                    holds_one_of(other, names) => Len(other) <= Len(dir)
    ELSE NoPath

\* the signatures of each framework
Junit5Signatures == {SIG_JUNIT_JUPITER, SIG_ORG_JUNIT_JUPITER}

Junit4Signatures(name) ==
    IF name = POM_XML THEN {SIG_JUNIT_JUNIT, SIG_JUNIT_ARTIFACT}
    ELSE {SIG_JUNIT_JUNIT, SIG_USE_JUNIT4_SQ, SIG_USE_JUNIT4_DQ}

TestNGSignatures == {SIG_TESTNG, SIG_ORG_TESTNG}

\* the framework of the highest-priority signature in the manifest of the
\* name in the directory, None when it holds none or cannot be read
signature_in(dir, name) ==
    IF join(dir, name) \notin DOMAIN disk THEN None
    ELSE IF ~disk[join(dir, name)].readable THEN None
    ELSE IF \E sig \in Junit5Signatures : Contains(disk[join(dir, name)].content, sig)
    THEN JUnit
    ELSE IF \E sig \in Junit4Signatures(name) : Contains(disk[join(dir, name)].content, sig)
    THEN JUnit4
    ELSE IF \E sig \in TestNGSignatures : Contains(disk[join(dir, name)].content, sig)
    THEN TestNG
    ELSE None

\* the first manifest of the directory, in the order of JavaManifests, that
\* names a framework, and its framework
RECURSIVE first_signature(_, _)
first_signature(dir, i) ==
    IF i > Len(JavaManifests) THEN None
    ELSE IF signature_in(dir, JavaManifests[i]) # None THEN signature_in(dir, JavaManifests[i])
    ELSE first_signature(dir, i + 1)

\* what the claim says the detection returns
manifest_framework(p, language) ==
    CASE language = Java ->
             IF nearest_with(p, JavaManifests) = NoPath THEN None
             ELSE first_signature(nearest_with(p, JavaManifests), 1)
      [] language = Rust ->
             IF nearest_with(p, <<CARGO_TOML>>) = NoPath THEN None
             ELSE IF disk[join(nearest_with(p, <<CARGO_TOML>>), CARGO_TOML)].readable
             THEN Native
             ELSE None
      [] language = Python -> None

\* C20: for Java, detect_framework returns the framework of the
\* highest-priority signature (JUnit 5, then JUnit 4, then TestNG) of the
\* nearest pom.xml, build.gradle or build.gradle.kts above the source, and
\* none when there is no signature or the manifest cannot be read; for Rust
\* it returns Native when the nearest Cargo.toml can be read; for Python it
\* returns none.
C20_ManifestDetection ==
    Detected => last.res = manifest_framework(last.start_path, last.language)

\* the same, where no directory nearer to the source than the language's own
\* manifest holds a manifest of another language
C20_ManifestDetectionInOwnProject ==
    (/\ Detected
     /\ nearest_with(last.start_path,
                     <<CARGO_TOML, POM_XML, BUILD_GRADLE, BUILD_GRADLE_KTS, PACKAGE_JSON>>)
            = nearest_with(last.start_path,
                           IF last.language = Rust THEN <<CARGO_TOML>> ELSE JavaManifests))
    => last.res = manifest_framework(last.start_path, last.language)

\* a pom.xml with the signatures of all three frameworks is JUnit 5
C20_PriorityReached ==
    /\ Detected
    /\ last.language = Java
    /\ nearest_with(SubSrc, JavaManifests) = Proj
    /\ \E sig \in TestNGSignatures : Contains(disk[join(Proj, POM_XML)].content, sig)
    /\ \E sig \in Junit4Signatures(POM_XML) : Contains(disk[join(Proj, POM_XML)].content, sig)
    /\ last.res = JUnit

-----------------------------------------------------------------------------
(* Properties of the order of the cache write and the path resolution      *)

\* the call ended with an error before it had a resolved test path: in the
\* language, the framework or the resolver
FailedBeforeResolved == Called /\ ~last.res.ok /\ last.trace.test_file_path = NoPath

\* the cache file is as the call found it
CacheFileUntouched == cacheFile = last.before.cacheFile

\* C21: the cache file is written only by a call that found a project root,
\* and only after the strategy has resolved the test path: a call that fails
\* in path resolution (FileNotFound, InvalidPath) or earlier leaves the cache
\* file as it was.
C21_CacheWrittenAfterResolution ==
    /\ (Called /\ ~CacheFileUntouched) => last.trace.project_root.some
    /\ FailedBeforeResolved => CacheFileUntouched

\* the part of it that holds: only a call that found a project root and got
\* past the framework writes the cache file, and what it writes is the cache
\* it loaded with its own entry put in
C21_CacheWrittenOnlyWithRoot ==
    (Called /\ ~CacheFileUntouched)
    => /\ last.trace.project_root.some
       /\ last.trace.cache_updated
       /\ cacheFile.state = "ok"
       /\ \A root \in DOMAIN cacheFile.cache :
              \A l \in DOMAIN cacheFile.cache[root] :
                  <<root, l>> # <<last.trace.project_root.path, fmt_debug(last.trace.language)>>
                  => /\ has_cache_entry(load_cache(last.before), root, l)
                     /\ get_cache_entry(load_cache(last.before), root, l)
                            = cacheFile.cache[root][l]

-----------------------------------------------------------------------------
(* Two runs that race on the cache file                                    *)

\* the two runs
Runs == {1, 2}

\* what a run upserts: the first one Java of /proj, the second one another
\* language of the root, Java of another root, or the same key
RaceCall(project_root, language_str, framework, structure) ==
    [framework |-> framework, structure |-> structure, project_root |-> project_root,
     language_str |-> language_str]

FirstCall == RaceCall(Proj, "Java", JUnit4, Maven)

SecondCalls ==
    {RaceCall(Proj, "Rust", Native, SameFile),
     RaceCall(OtherProj, "Java", JUnit, Maven),
     RaceCall(Proj, "Java", JUnit, Gradle)}

\* the cache file the runs find: none, or one with an entry of a third key
RaceCacheFiles ==
    {CacheFileAbsent,
     CacheFileOk(MapInsert(EmptyMap, OtherProj,
                           MapInsert(EmptyMap, "Rust", LanguageCache("Native", "SameFile", 1))))}

\* the characters of a text of atoms
RECURSIVE text_len(_)
text_len(t) == IF t = << >> THEN 0 ELSE Len(Head(t)) + text_len(Tail(t))

\* the sum of a function with a finite domain of numbers
RECURSIVE sum_over(_, _)
sum_over(f, keys) ==
    IF keys = {} THEN 0
    ELSE With(CHOOSE k \in keys : TRUE, LAMBDA k : f[k] + sum_over(f, keys \ {k}))

\* serde_json::to_string_pretty(cache).len(): the characters of the keys and
\* of the fields of each entry, and the punctuation of each root and entry,
\* which is the same for each (last_used has one digit in the modelled times)
json_len(cache) ==
    2 + sum_over([root \in DOMAIN cache |->
                     text_len(root) + 12
                     + sum_over([l \in DOMAIN cache[root] |->
                                    Len(l) + Len(cache[root][l].framework)
                                    + Len(cache[root][l].structure) + 80],
                                DOMAIN cache[root])],
                 DOMAIN cache)

\* the bytes of the cache file
file_len(cf) == IF cf.state = "ok" THEN json_len(cf.cache) ELSE 0

InitRace ==
    \E second \in SecondCalls, cf \in RaceCacheFiles :
        /\ backend = Os
        /\ disk = EmptyMap
        /\ dirs = {}
        /\ readonly = FALSE
        /\ mem = EmptyMap
        /\ cacheFile = cf
        /\ clock = StartClock
        /\ last = [cache |-> <<EmptyMap, EmptyMap>>,
                   op |-> "race",
                   before |-> cf,
                   pc |-> <<"load", "load">>,
                   call |-> <<FirstCall, second>>,
                   size |-> file_len(cf),
                   events |-> << >>]

\* the step of a run, with the cache it holds and the size of the file after
Step(p, to, cache, size) ==
    last' = [last EXCEPT !.cache[p] = cache, !.pc[p] = to, !.size = size,
                         !.events = Append(@, <<p, last.pc[p]>>)]

\* generator.rs:48: load_cache().unwrap_or_default()
RaceLoad ==
    \E p \in Runs :
        /\ last.pc[p] = "load"
        /\ Step(p, "create", load_cache(World), last.size)
        /\ UNCHANGED <<backend, disk, dirs, readonly, mem, cacheFile, clock>>

\* generator.rs:129-130 up to the File::create of fs::write: the entry is put
\* into the run's cache, the cache is serialised, and the file is opened and
\* emptied.  An empty file does not parse.
RaceCreate ==
    \E p \in Runs :
        /\ last.pc[p] = "create"
        /\ Step(p, "write",
                update_cache_entry(World, last.cache[p], last.call[p].project_root,
                                   last.call[p].language_str, last.call[p].framework,
                                   last.call[p].structure),
                0)
        /\ cacheFile' = [state |-> "corrupt", cache |-> EmptyMap, writable |-> TRUE]
        /\ UNCHANGED <<backend, disk, dirs, readonly, mem, clock>>

\* the write_all of fs::write: the bytes go to the start of the file, over
\* what another run wrote since the file was emptied; what is longer than
\* the bytes stays behind them, and the file does not parse
RaceWrite ==
    \E p \in Runs :
        /\ last.pc[p] = "write"
        /\ IF last.size > json_len(last.cache[p])
           THEN /\ Step(p, "done", last.cache[p], last.size)
                /\ cacheFile' = [state |-> "corrupt", cache |-> EmptyMap, writable |-> TRUE]
           ELSE /\ Step(p, "done", last.cache[p], json_len(last.cache[p]))
                /\ cacheFile' = CacheFileOk(last.cache[p])
        /\ UNCHANGED <<backend, disk, dirs, readonly, mem, clock>>

NextRace == RaceLoad \/ RaceCreate \/ RaceWrite

SpecRace == InitRace /\ [][NextRace]_vars

\* both runs have finished
RaceOver == last.op = "race" /\ last.pc = <<"done", "done">>

\* the position of the step of the run in the history
event_at(p, step) == CHOOSE i \in 1..Len(last.events) : last.events[i] = <<p, step>>

\* both runs loaded before either began to save
LoadedBeforeSaves ==
    \A p, q \in Runs : event_at(p, "load") < event_at(q, "create")

\* the run that wrote last, and the other one
last_writer == CHOOSE p \in Runs : \A q \in Runs : event_at(q, "write") <= event_at(p, "write")

other_run(p) == CHOOSE q \in Runs : q # p

\* the first run finished before the second one began, or the other way round
RunsApart ==
    \E p \in Runs : event_at(p, "write") < event_at(other_run(p), "load")

\* the saves do not overlap: one run wrote before the other emptied the file
SavesApart ==
    \E p \in Runs : event_at(p, "write") < event_at(other_run(p), "create")

\* the runs upsert different keys
DifferentKeys ==
    <<last.call[1].project_root, last.call[1].language_str>>
        # <<last.call[2].project_root, last.call[2].language_str>>

\* the persisted cache holds the entry the run upserted
EntryPersisted(p) ==
    /\ cacheFile.state = "ok"
    /\ has_cache_entry(cacheFile.cache, last.call[p].project_root, last.call[p].language_str)
    /\ get_cache_entry(cacheFile.cache, last.call[p].project_root, last.call[p].language_str)
           = get_cache_entry(last.cache[p], last.call[p].project_root,
                             last.call[p].language_str)

\* the last write wins: the file is the cache of the run that wrote last, and
\* the other run's entry of a different key is not in it
LastWriteWins ==
    /\ cacheFile.state = "ok"
    /\ cacheFile.cache = last.cache[last_writer]
    /\ DifferentKeys
       => ~has_cache_entry(cacheFile.cache, last.call[other_run(last_writer)].project_root,
                           last.call[other_run(last_writer)].language_str)

\* C22: when both runs load the cache before either saves, the cache file
\* after both have finished is the in-memory cache of the run that saved
\* last, and the entry the other run upserted for a different key is lost;
\* when the runs do not overlap, both entries are in the file.
C22_LastWriteWins ==
    RaceOver
    => /\ LoadedBeforeSaves => LastWriteWins
       /\ (RunsApart /\ DifferentKeys) => (EntryPersisted(1) /\ EntryPersisted(2))

\* the part of it that holds: the same, when in addition the two saves do
\* not overlap
C22_LastWriteWinsWhenSavesApart ==
    RaceOver
    => /\ (LoadedBeforeSaves /\ SavesApart) => LastWriteWins
       /\ (RunsApart /\ DifferentKeys) => (EntryPersisted(1) /\ EntryPersisted(2))

\* both loaded first, the saves were apart, and the entry of the run that
\* saved first is lost
C22_LostUpdateReached ==
    /\ RaceOver
    /\ LoadedBeforeSaves
    /\ SavesApart
    /\ DifferentKeys
    /\ LastWriteWins
    /\ ~EntryPersisted(other_run(last_writer))

-----------------------------------------------------------------------------
(* A second run after a creation                                           *)

\* the first run: a call that may create, without dry run
GenerateCreating ==
    /\ last = NoCall
    /\ \E source_path \in SourcePaths, structure \in StructureChoices,
          language \in LanguageChoices, framework \in FrameworkChoices :
           Run(source_path, GeneratorOptions(structure, language, framework, TRUE, FALSE))

\* the effect of the second call on the state: the first call's result is kept
ReturnAgain(first, before, out) ==
    /\ disk' = out.w.disk
    /\ dirs' = out.w.dirs
    /\ mem' = out.w.mem
    /\ cacheFile' = out.w.cacheFile
    /\ last' = [source_path |-> first.source_path, res |-> out.res, trace |-> out.trace,
                options |-> first.options, op |-> "again", before |-> before,
                first |-> first.res]

\* the second run: after the first one created the test, the same call on
\* the file system and the cache the first one left
GenerateAgain ==
    /\ last.op = "generate"
    /\ last.res.ok
    /\ last.res.created
    /\ ~last.res.dry_run
    /\ ReturnAgain(last, World, generate(World, last.source_path, last.options))
    /\ UNCHANGED <<backend, readonly, clock>>

NextAgain == GenerateCreating \/ GenerateAgain

SpecAgain == Init /\ [][NextAgain]_vars

\* the second run has been made
RanAgain == last.op = "again"

\* the second run found the test the first one created
FoundAgain ==
    /\ last.res.ok
    /\ ~last.res.created
    /\ last.res.test_file_path = last.first.test_file_path

\* C23: after a run that ends Created (create set, no dry run), a second run
\* with the same source path and options on the file system and cache the
\* first one left ends Found with the same test path and writes to no file,
\* for every language and structure the first run can succeed with.
C23_CreationIsIdempotent == RanAgain => (FoundAgain /\ FilesUntouched)

\* the test file the first run left holds the anchor of a test module, or
\* the structure is not SameFile
AnchoredOrApart ==
    \/ last.trace.structure # SameFile
    \/ /\ read_file_ok(last.before, last.first.test_file_path)
       /\ Contains(read_file(last.before, last.first.test_file_path), CFG_TEST)

\* the part of it that holds: the same, when the file the first run left can
\* be read and holds #[cfg(test)], or the test is a file of its own
C23_IdempotentWhenAnchored ==
    (RanAgain /\ AnchoredOrApart) => (FoundAgain /\ FilesUntouched)

\* a second run after the creation of a Java test file of its own
C23_FoundJavaTest ==
    /\ RanAgain
    /\ last.source_path = JavaSrc
    /\ last.trace.structure = Maven
    /\ FoundAgain
    /\ FilesUntouched

\* a second run after the block was appended to a Rust source
C23_FoundRustModule ==
    /\ RanAgain
    /\ last.source_path = RustSrc
    /\ last.trace.structure = SameFile
    /\ FoundAgain
    /\ FilesUntouched

-----------------------------------------------------------------------------
(* The line under the cursor after a creation                              *)

\* a Rust source without a test module whose last line ends with a line end
RustPlainEnded == RustPlain \o <<NL>>

RustSrcEnded == {<<RustSrc, RustPlainEnded>>}

\* the worlds of a creation: each backend, a Rust source that ends with a
\* line end or does not, with or without the Java source and the manifests
InitCursor ==
    \E b \in {Os, Memory}, rs \in {RustSrcPlain, RustSrcEnded}, js \in JavaSrcChoices,
       mf \in {{}, PomThere \cup CargoThere}, hidden \in HiddenChoices :
        /\ (hidden # {} => (b = Os /\ rs = RustSrcPlain))
        /\ InitWorld(b, FALSE, js \cup rs, mf, CacheFileAbsent, hidden)

NextCursor == GenerateCreating

SpecCursor == InitCursor /\ [][NextCursor]_vars

\* the call created the test file, or appended the test module
CreatedThere ==
    /\ Called
    /\ last.res.ok
    /\ last.res.created
    /\ ~last.res.dry_run

\* the k-th line of a text as an editor shows it, none beyond the last one
cursor_line(c, k) ==
    With(Split(c, NL), LAMBDA ps : IF k \in 1..Len(ps) THEN ps[k] ELSE << >>)

\* the line under the reported cursor holds the marker of the skeleton
CursorOnTodo ==
    Contains(cursor_line(stored_content(World, last.res.test_file_path),
                         last.res.line_number),
             TODO_COMMENT)

\* C24: after a run ends Created without dry run, the line of the test file
\* at the reported cursor line holds the // TODO marker of the skeleton, for
\* a new file and for a same-file append, whether or not the content before
\* it ended with a line end, under both backends.
C24_CursorOnTodo == CreatedThere => CursorOnTodo

\* the text ends with a line end
EndsWithNewline(c) == c # << >> /\ c[Len(c)] = NL

\* the block follows the content before it on a line of its own, with no
\* line between: the OS backend writes the block right behind the content,
\* the in-memory one a line end first
SeamFits(w, p) ==
    /\ read_file_ok(w, p)
    /\ IF w.backend = Os
       THEN stored_content(w, p) = << >> \/ EndsWithNewline(stored_content(w, p))
       ELSE stored_content(w, p) # << >> /\ ~EndsWithNewline(stored_content(w, p))

\* the part of it that holds: the same for a new file, and for an append to
\* a readable file that ends with a line end under the OS backend, or does
\* not under the in-memory backend
C24_CursorOnTodoWhenSeamFits ==
    (/\ CreatedThere
     /\ last.trace.structure = SameFile => SeamFits(last.before, last.res.test_file_path))
    => CursorOnTodo

\* a new Java test file with the cursor on its marker
C24_NewFileReached ==
    /\ CreatedThere
    /\ last.trace.structure = Maven
    /\ last.source_path = JavaSrc
    /\ CursorOnTodo

\* an append with the cursor on the marker, under the in-memory backend
C24_AppendReached ==
    /\ CreatedThere
    /\ last.trace.structure = SameFile
    /\ last.source_path = RustSrc
    /\ backend = Memory
    /\ last.res.line_number = 8
    /\ CursorOnTodo

-----------------------------------------------------------------------------
(* Properties of a same-file target without a test module                  *)

\* the call resolved the structure SameFile for a source that can be read
\* and does not hold #[cfg(test)]
SameFileWithoutModule ==
    /\ Called
    /\ last.trace.structure = SameFile
    /\ read_file_ok(last.before, last.source_path)
    /\ ~Contains(read_file(last.before, last.source_path), CFG_TEST)

\* the call ended Found
EndedFound == last.res.ok /\ ~last.res.created

\* the source holds what it held, a line end and the generated block, in
\* the order of the backend, and no other file changed
BlockAppended ==
    /\ last.trace.wrote
    /\ stored_content(World, last.source_path)
           \in {stored_content(last.before, last.source_path) \o generated_block \o <<NL>>,
                stored_content(last.before, last.source_path) \o <<NL>> \o generated_block}
    /\ \A p \in DOMAIN disk \ {abspath(last.source_path)} : disk[p] = last.before.disk[p]
    /\ \A p \in DOMAIN mem \ {normalize_path(last.source_path)} : mem[p] = last.before.mem[p]
    /\ dirs = last.before.dirs

\* the call ended Created with the block appended to the source
EndedCreated ==
    /\ last.res.ok
    /\ last.res.created
    /\ ~last.res.dry_run
    /\ last.res.test_file_path = last.source_path
    /\ BlockAppended

\* the call ended as the preview of a dry run
EndedPreview ==
    /\ last.res.ok
    /\ last.res.created
    /\ last.res.dry_run
    /\ last.res.test_file_path = last.source_path
    /\ FilesUntouched

\* the call failed with FileNotFound naming the source, and wrote nothing
EndedNotFound ==
    /\ FailedWith("FileNotFound")
    /\ last.res.err_path = last.source_path
    /\ FilesUntouched

\* C25 (as stated): with the resolved structure SameFile and a readable
\* source that does not hold #[cfg(test)], the call never ends Found: without
\* create it fails with FileNotFound naming the file and writes nothing; with
\* create and no dry run it appends the generated block to the source and
\* ends Created; with create and dry run it ends as a preview and writes
\* nothing.
C25_UnanchoredSameFile ==
    SameFileWithoutModule
    => /\ ~EndedFound
       /\ ~last.options.create => EndedNotFound
       /\ (last.options.create /\ ~last.options.dry_run) => EndedCreated
       /\ (last.options.create /\ last.options.dry_run) => EndedPreview

\* a template is registered for the language and the framework of the call
TemplateRegistered == <<last.trace.language, last.trace.framework>> \in RegisteredPairs

\* C25 (amended): the same, where the outcomes with create are those of a
\* call whose language and framework have a registered template; without one
\* the call fails with InvalidCombination and writes nothing, and a block
\* that cannot be appended fails the call with FileWriteError and no file
\* written.
C25_UnanchoredSameFileWithTemplate ==
    SameFileWithoutModule
    => /\ ~EndedFound
       /\ ~last.options.create => EndedNotFound
       /\ (last.options.create /\ ~TemplateRegistered)
          => (FailedWith("InvalidCombination") /\ FilesUntouched)
       /\ (last.options.create /\ TemplateRegistered /\ ~last.options.dry_run)
          => IF last.before.readonly
             THEN FailedWith("FileWriteError") /\ FilesUntouched
             ELSE EndedCreated
       /\ (last.options.create /\ TemplateRegistered /\ last.options.dry_run)
          => EndedPreview

\* the block was appended to a Rust source without a test module
C25_Witness ==
    /\ SameFileWithoutModule
    /\ last.source_path = RustSrc
    /\ last.options.create
    /\ ~last.options.dry_run
    /\ EndedCreated

\* the file is there and the call without create says it was not found
C25_WitnessNotFound ==
    /\ SameFileWithoutModule
    /\ ~last.options.create
    /\ file_exists(last.before, last.source_path)
    /\ EndedNotFound

\* the preview of a dry run
C25_WitnessPreview ==
    /\ SameFileWithoutModule
    /\ last.options.create
    /\ last.options.dry_run
    /\ EndedPreview

\* a call with create for a pair without a template
C25_WitnessNoTemplate ==
    /\ SameFileWithoutModule
    /\ last.options.create
    /\ ~TemplateRegistered
    /\ FailedWith("InvalidCombination")

-----------------------------------------------------------------------------
(* Runs that follow a run with an explicit framework                       *)

\* the runs of one behaviour
MaxRuns == 3

\* the frameworks the first run may name
ExplicitFrameworks == {JUnit, JUnit4, TestNG, Native}

\* the cache files the first run may find
RememberCacheFiles ==
    {CacheFileAbsent,
     [state |-> "corrupt", cache |-> EmptyMap, writable |-> FALSE],
     CacheFileOk(CacheOf("Java", LanguageCache("JUnit", "Maven", 1)))}

InitRemember ==
    \E mf \in ManifestChoices, cf \in RememberCacheFiles :
        InitWorld(Os, FALSE, JavaSrcThere \cup RustSrcPlain, mf \cup CargoThere, cf, {})

\* the marker files of the language
marker_names(language) ==
    {config_files_for_language(language)[i] :
        i \in 1..Len(config_files_for_language(language))}

\* the entry of /proj and the language in the cache file
entry_in_file(language) == get_cache_entry(cacheFile.cache, Proj, fmt_debug(language))

\* a marker file of the language was modified after the entry was last used
MarkerNewerThanEntry(language) ==
    \E name \in marker_names(language) : NewerMarker(name, entry_in_file(language).last_used)

\* the effect of a run on the state: the framework of the first run, and
\* whether it is still to be remembered, are kept with the call
ReturnRemembering(source_path, options, before, out, named, remembered, runs) ==
    /\ disk' = out.w.disk
    /\ dirs' = out.w.dirs
    /\ mem' = out.w.mem
    /\ cacheFile' = out.w.cacheFile
    /\ last' = [source_path |-> source_path, res |-> out.res, trace |-> out.trace,
                options |-> options, op |-> "remember", before |-> before,
                named |-> named, remembered |-> remembered, runs |-> runs]

\* the first run names a framework: it is to be remembered when it is valid
\* for the language, a project root is found and the cache is saved
RememberFirst ==
    /\ last = NoCall
    /\ \E source_path \in SourcePaths, framework \in ExplicitFrameworks,
          structure \in {Maven, SameFile} :
           ReturnRemembering(
               source_path, GeneratorOptions(structure, None, framework, FALSE, FALSE),
               World,
               generate(World, source_path,
                        GeneratorOptions(structure, None, framework, FALSE, FALSE)),
               framework,
               /\ is_valid_combination(detect_language(source_path), framework)
               /\ find_project_root(World, source_path, detect_language(source_path)).some
               /\ cacheFile.writable,
               1)
    /\ UNCHANGED <<backend, readonly, clock>>

\* a later run for the same source and structure names no framework: it stays
\* to be remembered when no marker file is newer than the entry it finds
RememberLater ==
    /\ last.op = "remember"
    /\ last.runs < MaxRuns
    /\ \E create \in BOOLEAN :
           ReturnRemembering(
               last.source_path,
               GeneratorOptions(last.options.structure, None, None, create, FALSE),
               World,
               generate(World, last.source_path,
                        GeneratorOptions(last.options.structure, None, None, create, FALSE)),
               last.named,
               last.remembered /\ ~MarkerNewerThanEntry(detect_language(last.source_path)),
               last.runs + 1)
    /\ UNCHANGED <<backend, readonly, clock>>

\* a second passes, before or between the runs
RememberTick ==
    /\ clock < StartClock + MaxTicks * TicksPerSec
    /\ clock' = clock + TicksPerSec
    /\ UNCHANGED <<backend, disk, dirs, readonly, mem, cacheFile, last>>

\* the Maven manifest is edited, before or between the runs
RememberTouch ==
    /\ join(Proj, POM_XML) \in DOMAIN disk
    /\ disk[join(Proj, POM_XML)].mtime < clock
    /\ disk' = [disk EXCEPT ![join(Proj, POM_XML)].mtime = clock]
    /\ UNCHANGED <<backend, dirs, readonly, mem, cacheFile, clock, last>>

NextRemember == RememberFirst \/ RememberLater \/ RememberTick \/ RememberTouch

SpecRemember == InitRemember /\ [][NextRemember]_vars

\* a later run was made while the framework of the first was to be remembered
LaterRemembering == last.op = "remember" /\ last.runs > 1 /\ last.remembered

\* C26: after a run with an explicit framework valid for the language, in a
\* project whose root is found and whose cache is saved, every later run for
\* the same root and language without an explicit framework resolves that
\* framework, whatever the manifests say, as long as no marker file of the
\* language has a modification time greater than the entry's last_used; each
\* such run rewrites the entry with the same framework and the time of the
\* run.
C26_ExplicitFrameworkRemembered ==
    LaterRemembering
    => /\ last.trace.framework = last.named
       /\ cacheFile.state = "ok"
       /\ has_cache_entry(cacheFile.cache, Proj, fmt_debug(last.trace.language))
       /\ entry_in_file(last.trace.language).framework = fmt_debug(last.named)
       /\ entry_in_file(last.trace.language).last_used = as_secs(last.before.clock)

\* JUnit4 was named in a project whose pom.xml says JUnit 5, the manifest was
\* edited within the second of the first run, and a later run a second after
\* resolves JUnit4 and stores it with the new time
C26_Witness ==
    /\ LaterRemembering
    /\ last.source_path = JavaSrc
    /\ last.named = JUnit4
    /\ detect_framework(last.before, JavaSrc, Java) = JUnit
    /\ mtime_of(last.before, join(Proj, POM_XML)) > MarkerTime
    /\ last.trace.framework = JUnit4
    /\ get_cache_entry(load_cache(last.before), Proj, "Java").last_used
           < entry_in_file(Java).last_used

\* the manifest was edited a second after the first run: the framework is
\* detected anew
C26_WitnessForgotten ==
    /\ last.op = "remember"
    /\ last.runs > 1
    /\ ~last.remembered
    /\ last.named = JUnit4
    /\ last.trace.framework = JUnit

-----------------------------------------------------------------------------
(* The boundary: testsmith_find_or_create                                  *)

\* TestsmithResult::success and TestsmithResult::error
TestsmithSuccess(message, created, line_number) ==
    [created |-> IF created THEN 1 ELSE 0, line_number |-> line_number,
     message |-> message, success |-> 1]

TestsmithError(message) ==
    [created |-> 0, line_number |-> 0, message |-> <<"Error: ", message>>, success |-> 0]

\* ffi.rs:97-104: the structure of the caller's string, None for any other
ffi_structure(str) ==
    CASE str = "maven" -> Maven
      [] str = "gradle" -> Gradle
      [] str = "flat" -> Flat
      [] str = "same-file" -> SameFile
      [] OTHER -> None

\* ffi.rs:117-127: the framework of the caller's string
ffi_framework(str) ==
    CASE str = "junit" -> JUnit
      [] str = "junit4" -> JUnit4
      [] str = "testng" -> TestNG
      [] str = "native" -> Native
      [] str = "jest" -> Jest
      [] str = "pytest" -> Pytest
      [] OTHER -> None

FfiFrameworks == {"auto", "junit", "junit4", "testng", "native", "jest", "pytest"}

\* ffi.rs:107-111: the language of the extension, or none
ffi_language(source_path) ==
    IF detect_language(source_path) \in Language THEN detect_language(source_path) ELSE None

\* ffi.rs:143-156: the result of generate() at the boundary
testsmith_result(res) ==
    IF res.ok THEN TestsmithSuccess(res.test_file_path, res.created, res.line_number)
    ELSE TestsmithError(res.err)

\* test files and sources without a line to put the cursor on
JavaTestBare == <<"class FooTest {", NL, "}", NL>>

RustModuleBare == <<"pub fn f() {}", NL, "#[cfg(test)]", NL, "mod tests {}", NL>>

\* a source without an extension
NoExtSrc == <<Sep, "proj", Sep, "src", Sep, "Makefile">>

\* the worlds of the boundary: the OS file system, with test files and test
\* modules with and without an anchor, readable or not
InitLine ==
    \E jt \in {{}, {<<JavaTest, JavaTestWithTodo>>}, {<<JavaTest, JavaTestBare>>}},
       rs \in {RustSrcPlain, {<<RustSrc, RustWithTests>>}, {<<RustSrc, RustModuleBare>>}},
       hidden \in {{}, {RustSrc}, {JavaTest}} :
        InitWorld(Os, FALSE, JavaSrcThere \cup rs \cup jt, PomThere \cup CargoThere,
                  CacheFileAbsent, hidden)

\* the effect of a call that reaches generate()
ReturnAcross(source_path, options, before, out) ==
    /\ disk' = out.w.disk
    /\ dirs' = out.w.dirs
    /\ mem' = out.w.mem
    /\ cacheFile' = out.w.cacheFile
    /\ last' = [source_path |-> source_path, res |-> out.res, trace |-> out.trace,
                options |-> options, op |-> "find_or_create", before |-> before,
                ffi |-> testsmith_result(out.res)]

\* testsmith_find_or_create
FindOrCreate ==
    /\ last = NoCall
    /\ \E source_path \in SourcePaths \cup {NoExtSrc},
          structure \in {"maven", "same-file", "flat", "pom"},
          framework \in {"auto", "junit4", "native", "spock"},
          create \in BOOLEAN, dry_run \in BOOLEAN :
           IF ffi_structure(structure) = None
           THEN /\ last' = [op |-> "find_or_create",
                            ffi |-> TestsmithError("Invalid structure type")]
                /\ UNCHANGED <<disk, dirs, mem, cacheFile>>
           ELSE IF framework \notin FfiFrameworks
           THEN /\ last' = [op |-> "find_or_create",
                            ffi |-> TestsmithError("Invalid framework type")]
                /\ UNCHANGED <<disk, dirs, mem, cacheFile>>
           ELSE ReturnAcross(
                    source_path,
                    GeneratorOptions(ffi_structure(structure), ffi_language(source_path),
                                     ffi_framework(framework), create, dry_run),
                    World,
                    generate(World, source_path,
                             GeneratorOptions(ffi_structure(structure),
                                              ffi_language(source_path),
                                              ffi_framework(framework), create, dry_run)))
    /\ UNCHANGED <<backend, readonly, clock>>

NextLine == FindOrCreate

SpecLine == InitLine /\ [][NextLine]_vars

\* the call came back from generate()
Generated == last.op = "find_or_create" /\ "res" \in DOMAIN last

\* the call found a test that was there
FoundTest == Generated /\ last.res.ok /\ ~last.res.created

\* the file the result names as it was before the call
named_file == stored_content(last.before, last.res.test_file_path)

\* no line of the file the result names is one the cursor is put on: none
\* holds #[test] or // TODO in a file with a test module, none holds // TODO
\* or TODO: in a test file of its own
NoAnchorThere ==
    IF last.trace.structure = SameFile
    THEN ~Contains(named_file, TEST_ATTR) /\ ~Contains(named_file, TODO_COMMENT)
    ELSE ~Contains(named_file, TODO_COMMENT) /\ ~Contains(named_file, TODO_COLON)

\* the file the result names could not be read
NamedUnreadable ==
    /\ file_exists(last.before, last.res.test_file_path)
    /\ ~read_file_ok(last.before, last.res.test_file_path)

\* C27: every successful result of generate() (Found, Created or preview)
\* carries a cursor line of at least 1, which is 1 when no anchor or TODO line
\* is found or the file cannot be read; the result at the boundary carries
\* the line 0 for errors only.
C27_CursorLineAtLeastOne ==
    /\ (Generated /\ last.res.ok)
       => /\ last.res.line_number >= 1
          /\ last.ffi.line_number = last.res.line_number
          /\ NamedUnreadable => last.res.line_number = 1
    /\ (FoundTest /\ ~NamedUnreadable /\ NoAnchorThere) => last.res.line_number = 1
    /\ last.op = "find_or_create" => (last.ffi.line_number = 0 <=> last.ffi.success = 0)
    /\ (Generated /\ ~last.res.ok) => last.ffi.success = 0

\* a test file without an anchor was found: line 1
C27_Witness ==
    /\ FoundTest
    /\ last.res.test_file_path = JavaTest
    /\ ~NamedUnreadable
    /\ NoAnchorThere
    /\ last.ffi.success = 1
    /\ last.ffi.line_number = 1

\* a test file that cannot be read was found: line 1
C27_WitnessUnreadable ==
    /\ FoundTest
    /\ NamedUnreadable
    /\ last.ffi.line_number = 1

\* a created test with the cursor beyond line 1
C27_WitnessCreated ==
    /\ Generated
    /\ last.res.ok
    /\ last.res.created
    /\ last.ffi.created = 1
    /\ last.ffi.line_number > 1

\* an error of generate() and an error of the boundary itself
C27_WitnessError ==
    /\ Generated
    /\ ~last.res.ok
    /\ last.ffi.line_number = 0

C27_WitnessInvalidArgument ==
    /\ last.op = "find_or_create"
    /\ ~Generated
    /\ last.ffi.line_number = 0

-----------------------------------------------------------------------------
(* The class of the skeleton and the name of the test file                 *)

\* the class names X of the Java sources X.java
ClassStems == UNION {[1..n -> {"Foo", "Test"}] : n \in 1..MaxStemAtoms}

\* the source file X.java of a Maven project
java_source(stem) ==
    <<Sep, "proj", Sep, "src", Sep, "main", Sep, "java", Sep>> \o stem \o DOT_JAVA

InitSkeleton ==
    \E stem \in ClassStems :
        InitWorld(Os, FALSE, {<<java_source(stem), JavaWithPackage>>}, PomThere,
                  CacheFileAbsent, {})

\* generate() for the source of the project, resolved by directory
\* substitution
GenerateSkeleton ==
    /\ last = NoCall
    /\ \E stem \in ClassStems, structure \in {Maven, Gradle}, framework \in {None, JUnit4},
          create \in BOOLEAN, dry_run \in BOOLEAN :
           /\ java_source(stem) \in DOMAIN disk
           /\ Run(java_source(stem),
                  GeneratorOptions(structure, None, framework, create, dry_run))

NextSkeleton == GenerateSkeleton

SpecSkeleton == InitSkeleton /\ [][NextSkeleton]_vars

\* the name between the keyword class and the brace of the first class
\* declared in a text
declared_class(c) ==
    With(CHOOSE i \in 1..Len(c) :
             /\ c[i] \in {"class ", "public class "}
             /\ \A k \in 1..(i - 1) : c[k] \notin {"class ", "public class "},
         LAMBDA i :
             Slice(c, i + 1,
                   (CHOOSE j \in (i + 1)..Len(c) :
                        c[j] = " {" /\ \A k \in (i + 1)..(j - 1) : c[k] # " {") - 1))

\* the file name of the path without its extension .java
base_name(p) == Slice(file_name(p), 1, Len(file_name(p)) - Len(DOT_JAVA))

\* the class name X of the call's source X.java
source_stem == base_name(last.source_path)

\* a Java test file of its own was written
SkeletonWritten ==
    /\ CreatedThere
    /\ last.trace.language = Java
    /\ last.trace.structure \in {Maven, Gradle}

\* the class the written file declares is named as the file
ClassNamedAsFile ==
    /\ declared_class(stored_content(World, last.res.test_file_path))
           = base_name(last.res.test_file_path)
    /\ base_name(last.res.test_file_path) = source_stem \o TEST_SUFFIX

\* C28: for every Java source X.java resolved by directory substitution, the
\* class declared in the generated skeleton is named as the resolved test
\* file, XTest, also when X ends in Test or is Test.
C28_ClassNamedAsFile == SkeletonWritten => ClassNamedAsFile

\* the part of it that holds: the same for every X that does not end in Test
C28_ClassNamedAsFileUnlessTest ==
    (SkeletonWritten /\ source_stem[Len(source_stem)] # "Test") => ClassNamedAsFile

\* the skeleton of TestFoo.java declares TestFooTest in TestFooTest.java
C28_Reached ==
    /\ SkeletonWritten
    /\ source_stem = <<"Test", "Foo">>
    /\ ClassNamedAsFile

-----------------------------------------------------------------------------
(* The directory of the manifest the detection scans                       *)

\* a Java source in /proj/sub/src, a pom.xml in /proj or none, with or
\* without a Cargo.toml beside it, and between them the choices of /proj/sub
InitScan ==
    \E pom \in ManifestsOf(Proj, POM_XML, {PomJupiter, PomJUnit4}),
       cargo \in ManifestsOf(Proj, CARGO_TOML, {CargoPlain}),
       between \in BetweenChoices :
        /\ backend = Os
        /\ disk = MapOf(pom \cup cargo \cup between \cup {<<SubSrc, File(JavaWithPackage, 0)>>})
        /\ dirs = Ancestors(SubSrc)
        /\ readonly = FALSE
        /\ mem = EmptyMap
        /\ cacheFile = CacheFileAbsent
        /\ clock = StartClock
        /\ last = NoCall

\* generate() for the source, with the framework left to the run
GenerateScanning ==
    /\ last = NoCall
    /\ \E structure \in {Maven, SameFile}, language \in {None, Rust},
          create \in BOOLEAN, dry_run \in BOOLEAN :
           Run(SubSrc, GeneratorOptions(structure, language, None, create, dry_run))

NextScan == GenerateScanning

SpecScan == InitScan /\ [][NextScan]_vars

\* the run asked the manifests for the framework, in a project with a root
AskedManifests ==
    /\ Called
    /\ last.trace.project_root.some
    /\ last.trace.tier \in {"detected", "default"}

\* the directory whose manifest detect_framework scans in the run
scanned_root == detector_find_project_root(last.before, last.source_path)

\* C29: in a run of generate(), the manifest scanned by the framework
\* detection lies in the directory of the project root used as the cache key,
\* the closest ancestor of the source that holds a marker file of the run's
\* language, also when a closer ancestor holds a marker file of another
\* language.
C29_DetectionScansProjectRoot ==
    AskedManifests
    => /\ scanned_root.some
       /\ scanned_root.path = last.trace.project_root.path

\* no directory nearer to the source than the project root holds a marker
\* file of any language the detection knows
NoForeignMarkerBelowRoot ==
    nearest_with(last.source_path,
                 <<CARGO_TOML, POM_XML, BUILD_GRADLE, BUILD_GRADLE_KTS, PACKAGE_JSON>>)
        = last.trace.project_root.path

\* the part of it that holds: the same, where no closer ancestor holds a
\* marker file of another language
C29_DetectionScansOwnProjectRoot ==
    (AskedManifests /\ NoForeignMarkerBelowRoot)
    => /\ scanned_root.some
       /\ scanned_root.path = last.trace.project_root.path

\* the pom.xml of /proj was scanned for a source of /proj/sub
C29_Reached ==
    /\ AskedManifests
    /\ last.trace.language = Java
    /\ last.trace.project_root.path = Proj
    /\ scanned_root.path = Proj
    /\ last.trace.framework = JUnit4
    /\ last.trace.tier = "detected"

\* the claim's example: a package.json between the Java source and its
\* pom.xml, which names JUnit 4; the detection scans /proj/sub, finds no
\* manifest of Java there, and the run falls back to the default
C29_ForeignMarkerReached ==
    /\ AskedManifests
    /\ last.trace.language = Java
    /\ last.trace.project_root.path = Proj
    /\ join(SubProj, PACKAGE_JSON) \in DOMAIN disk
    /\ disk[join(Proj, POM_XML)].content = PomJUnit4
    /\ scanned_root.path = SubProj
    /\ last.trace.tier = "default"
    /\ last.trace.framework = JUnit

-----------------------------------------------------------------------------
(* The cursor line of the run that follows a creation                      *)

\* the second run reports the cursor line the creating run reported
SameLineAgain == last.res.line_number = last.first.line_number

\* C30: for a test location that generate() has just created, the run that
\* follows with the same options on unchanged files reports, as Found, the
\* cursor line the creating run reported, under SameFile (a Rust test module
\* appended to the source) as under directory substitution.
C30_SameCursorLineAgain == (RanAgain /\ FoundAgain) => SameLineAgain

\* the part of it that holds: the same for a test file of its own
C30_SameCursorLineAgainApart ==
    (RanAgain /\ FoundAgain /\ last.trace.structure # SameFile) => SameLineAgain

\* a Java test file was created and found again with the cursor on the line
\* of its marker
C30_Reached ==
    /\ RanAgain
    /\ FoundAgain
    /\ last.source_path = JavaSrc
    /\ last.trace.structure = Maven
    /\ last.first.line_number > 1
    /\ SameLineAgain

\* a Rust test module was appended with the cursor on its marker and found
\* again with the cursor on its #[test] line
C30_ModuleReached ==
    /\ RanAgain
    /\ FoundAgain
    /\ last.source_path = RustSrc
    /\ last.trace.structure = SameFile
    /\ backend = Memory
    /\ last.first.line_number = 8
    /\ last.res.line_number = 6

====
